---- MODULE Spec2Model ----
(***************************************************************************)
(* depthflow: order-book adapters, the outlier span tracker and the        *)
(* metrics tick, as state machines.                                        *)
(*                                                                         *)
(* Numbers are integers.  A quotient the code computes in floating point   *)
(* (avgZ, filledPct, sizeDeltaPct) is kept as an exact fraction <<n, d>>   *)
(* with d > 0 and compared by cross-multiplication.                        *)
(***************************************************************************)
EXTENDS Integers, Sequences, FiniteSets, TLC

VARIABLES
    active,     \* OutlierSpanTracker.active: key -> ActiveSpan
    order,      \* insertion order of the keys of `active` (Map iteration order)
    store,      \* OutlierSpanStore.data: the rows appended so far
    hist,       \* history: for each active key, the records that opened/extended it
    seenTrades, \* history: for each active key, the matching trades since it opened
    storeHist,  \* history: for each row of `store`, the hist of the span it closed
    storeTrades,\* history: for each row of `store`, the seenTrades of that span
    cands,      \* the keys of the outlier records of the latest metrics tick
    state,      \* per adapter, its BookState: bids, asks and the owned LevelTracker
    msg,        \* the venue message or tick input handled by the latest step
    perp,       \* the perp path: perpLatest and lastSnapshot of one symbol, the
                \* metrics and large-move stores, the messages broadcast
    stores,     \* the retention stores: the clock, and per store its in-memory
                \* cache and its DB table (each row by its ts, end_ts for spans)
    proc,       \* the process: whether it runs, and per websocket feed its
                \* socket, its pending reconnect timer and its polling timers
    last,       \* the latest call: its name, its arguments and what it returned
    steps       \* calls made so far

vars == <<active, order, store, hist, seenTrades, storeHist, storeTrades, cands, state, msg,
          perp, stores, proc, last, steps>>

(***************************************************************************)
(* Bounds of the model.                                                    *)
(***************************************************************************)
MaxSteps == 4       \* calls made on the tracker in one behaviour
MaxTradeSteps == 4  \* calls made in one behaviour of the trade specification
MaxTickSteps == 4   \* ticks and trades in one behaviour of the tick specification
MaxBookSteps == 3   \* venue messages in one behaviour of the book specification
MaxDeltaSteps == 3  \* messages and resets in one behaviour of the incremental specification
MaxSnapSteps == 2   \* snapshots in one behaviour of the snapshot specification
MaxSpotSteps == 2   \* ticks in one behaviour of the outlier specification
Depth == 1          \* options.depth: the levels of a side delivered to onUpdate

(***************************************************************************)
(* Generic helpers.                                                        *)
(***************************************************************************)
Max(a, b) == IF a >= b THEN a ELSE b
Min(a, b) == IF a <= b THEN a ELSE b
Abs(x) == IF x >= 0 THEN x ELSE -x
Empty == [k \in {} |-> 0]  \* new Map()
NoMsg == [kind |-> "none"]

RatLeq(a, b) == a[1] * b[2] <= b[1] * a[2]
RatEq(a, b) == a[1] * b[2] = b[1] * a[2]
RatMax(a, b) == IF RatLeq(b, a) THEN a ELSE b
RatMin(a, b) == IF RatLeq(a, b) THEN a ELSE b
Rat(n, d) == IF d > 0 THEN <<n, d>> ELSE <<-n, -d>>

Range(s) == {s[i] : i \in 1..Len(s)}

RECURSIVE SumZ(_)
SumZ(h) == IF h = <<>> THEN 0 ELSE h[1].zScore + SumZ(Tail(h))

RECURSIVE MaxZOf(_)
MaxZOf(h) == IF Len(h) = 1 THEN h[1].zScore ELSE Max(h[1].zScore, MaxZOf(Tail(h)))

(***************************************************************************)
(* String.prototype.toLowerCase on the exchange names that occur.          *)
(***************************************************************************)
toLowerCase(s) ==
    CASE s = "Bybit" -> "bybit"
      [] s = "BYBIT" -> "bybit"
      [] s = "bybit" -> "bybit"
      [] s = "MEXC" -> "mexc"
      [] s = "mexc" -> "mexc"
      [] OTHER -> s

(***************************************************************************)
(* OutlierSpanTracker                                                      *)
(***************************************************************************)
\* key(record): the template string symbol:market:exchange:side:price.  The
\* five components are kept as a record; two keys are equal iff the strings are.
key(record) ==
    [symbol |-> record.symbol, market |-> record.market, exchange |-> record.exchange,
     side |-> record.side, price |-> record.price]

\* update, else-branch: the span opened by the first record of a key.
spanOpen(record) ==
    [startTs |-> record.ts, lastTs |-> record.ts,
     sumZ |-> record.zScore, maxZ |-> record.zScore, count |-> 1,
     symbol |-> record.symbol, market |-> record.market, exchange |-> record.exchange,
     side |-> record.side, price |-> record.price,
     startSize |-> record.size, lastSize |-> record.size,
     tradeBuyQty |-> 0, tradeSellQty |-> 0, tradeCount |-> 0]

\* spanExtend with maxZ overwritten by the latest z-score.
spanExtend_LatestZ(existing, record) ==
    [existing EXCEPT !.lastTs = record.ts,
                     !.sumZ = existing.sumZ + record.zScore,
                     !.count = existing.count + 1,
                     !.lastSize = record.size,
                     !.maxZ = record.zScore]

\* spanExtend that starts the trade counters afresh.
spanExtend_ResetTrades(existing, record) ==
    [existing EXCEPT !.lastTs = record.ts,
                     !.sumZ = existing.sumZ + record.zScore,
                     !.count = existing.count + 1,
                     !.lastSize = record.size,
                     !.maxZ = IF record.zScore > existing.maxZ
                              THEN record.zScore ELSE existing.maxZ,
                     !.tradeBuyQty = 0, !.tradeSellQty = 0, !.tradeCount = 0]

\* spanExtend that leaves count as it was.
spanExtend_KeepsCount(existing, record) ==
    [existing EXCEPT !.lastTs = record.ts,
                     !.sumZ = existing.sumZ + record.zScore,
                     !.lastSize = record.size,
                     !.maxZ = IF record.zScore > existing.maxZ
                              THEN record.zScore ELSE existing.maxZ]

\* update, if-branch: an active span extended by a further record of its key.
spanExtend(existing, record) ==
    [existing EXCEPT !.lastTs = record.ts,
                     !.sumZ = existing.sumZ + record.zScore,
                     !.count = existing.count + 1,
                     !.lastSize = record.size,
                     !.maxZ = IF record.zScore > existing.maxZ
                              THEN record.zScore ELSE existing.maxZ]

\* update, first loop: records are processed in order; a new key is inserted
\* at the end of the map.  trk is [active, order].
RECURSIVE updateRecords(_, _)
updateRecords(trk, records) ==
    IF records = <<>> THEN trk
    ELSE LET record == Head(records)
             k == key(record)
             next == IF k \in DOMAIN trk.active
                     THEN [trk EXCEPT !.active[k] = spanExtend(trk.active[k], record)]
                     ELSE [active |-> [x \in DOMAIN trk.active \cup {k} |->
                                          IF x = k THEN spanOpen(record) ELSE trk.active[x]],
                           order |-> Append(trk.order, k)]
         IN updateRecords(next, Tail(records))

\* filledPct without the clamp to [0, 1].
filledPctOf_NoClamp(span) ==
    IF span.startSize > 0
    THEN Rat(span.startSize - span.lastSize, span.startSize)
    ELSE <<0, 1>>

filledPctOf(span) ==
    IF span.startSize > 0
    THEN RatMin(<<1, 1>>, RatMax(<<0, 1>>, Rat(span.startSize - span.lastSize, span.startSize)))
    ELSE <<0, 1>>

sizeDeltaPctOf(span) ==
    IF span.startSize > 0
    THEN Rat(span.lastSize - span.startSize, span.startSize)
    ELSE <<0, 1>>

\* avgZ over the extensions only (count - 1).
avgZOf_OffByOne(span) == Rat(span.sumZ, Max(1, span.count - 1))

avgZOf(span) == Rat(span.sumZ, Max(1, span.count))

\* update, close loop body: the OutlierSpanRecord appended for a closed span.
closeRow(span) ==
    [startTs |-> span.startTs, endTs |-> span.lastTs,
     durationMs |-> Max(0, span.lastTs - span.startTs),
     symbol |-> span.symbol, market |-> span.market, exchange |-> span.exchange,
     side |-> span.side, price |-> span.price,
     maxZ |-> span.maxZ, avgZ |-> avgZOf(span), count |-> span.count,
     startSize |-> span.startSize, endSize |-> span.lastSize,
     filledPct |-> filledPctOf(span),
     sizeDelta |-> span.lastSize - span.startSize,
     sizeDeltaPct |-> sizeDeltaPctOf(span),
     tradeBuyQty |-> span.tradeBuyQty, tradeSellQty |-> span.tradeSellQty,
     tradeCount |-> span.tradeCount]

\* The keys the close loop closes, in Map iteration order.
closing(ord, seen) == SelectSeq(ord, LAMBDA k : k \notin seen)

\* update, second loop: every active key not seen in this call is deleted and
\* its row appended to the store.  trk is [active, order, store].
updateClose(trk, seen) ==
    LET gone == closing(trk.order, seen)
        kept == SelectSeq(trk.order, LAMBDA k : k \in seen)
    IN [active |-> [k \in Range(kept) |-> trk.active[k]],
        order |-> kept,
        store |-> trk.store \o [i \in 1..Len(gone) |-> closeRow(trk.active[gone[i]])]]

\* OutlierSpanTracker.update(records) as a function of the tracker state.
update(trk, records) ==
    LET seen == {key(records[i]) : i \in 1..Len(records)}
        mid == updateRecords([active |-> trk.active, order |-> trk.order], records)
    IN updateClose([active |-> mid.active, order |-> mid.order, store |-> trk.store], seen)

\* The 5 of `if (bps > 5) continue`.
TRADE_BPS == 5

\* tradeMatches comparing the exchange names as they are.
tradeMatches_CaseSensitive(span, input) ==
    /\ span.exchange = input.exchange
    /\ span.symbol = input.symbol
    /\ span.market = input.market
    /\ span.price + input.price > 0
    /\ ~(Abs(span.price - input.price) * 20000 > TRADE_BPS * (span.price + input.price))

\* tradeMatches without the market guard.
tradeMatches_AnyMarket(span, input) ==
    /\ toLowerCase(span.exchange) = toLowerCase(input.exchange)
    /\ span.symbol = input.symbol
    /\ span.price + input.price > 0
    /\ ~(Abs(span.price - input.price) * 20000 > TRADE_BPS * (span.price + input.price))

\* recordTrade, loop guards: lines 658-664 in order.  mid = (a + b)/2 <= 0 iff
\* a + b <= 0, and |a - b| / mid * 10000 > 5 iff |a - b| * 20000 > 5 * (a + b).
tradeMatches(span, input) ==
    /\ toLowerCase(span.exchange) = toLowerCase(input.exchange)
    /\ span.symbol = input.symbol
    /\ span.market = input.market
    /\ span.price + input.price > 0
    /\ ~(Abs(span.price - input.price) * 20000 > TRADE_BPS * (span.price + input.price))

\* creditTrade that also moves the span's lastTs to the trade's time.
creditTrade_TouchesLastTs(span, input) ==
    IF input.side = "Buy"
    THEN [span EXCEPT !.tradeBuyQty = @ + input.qty, !.tradeCount = @ + 1,
                      !.lastTs = input.ts + 1]
    ELSE [span EXCEPT !.tradeSellQty = @ + input.qty, !.tradeCount = @ + 1,
                      !.lastTs = input.ts + 1]

\* recordTrade, loop body after the guards.
creditTrade(span, input) ==
    IF input.side = "Buy"
    THEN [span EXCEPT !.tradeBuyQty = @ + input.qty, !.tradeCount = @ + 1]
    ELSE [span EXCEPT !.tradeSellQty = @ + input.qty, !.tradeCount = @ + 1]

\* OutlierSpanTracker.recordTrade(input) as a function of the active map.
recordTrade(act, input) ==
    [k \in DOMAIN act |->
        IF tradeMatches(act[k], input) THEN creditTrade(act[k], input) ELSE act[k]]

\* activeRow with sizeDelta taken as startSize - lastSize.
activeRow_FlippedDelta(span, now) ==
    [startTs |-> span.startTs, endTs |-> now,
     durationMs |-> Max(0, now - span.startTs),
     symbol |-> span.symbol, market |-> span.market, exchange |-> span.exchange,
     side |-> span.side, price |-> span.price,
     maxZ |-> span.maxZ, avgZ |-> Rat(span.sumZ, Max(1, span.count)), count |-> span.count,
     startSize |-> span.startSize, endSize |-> span.lastSize,
     filledPct |-> IF span.startSize > 0
                   THEN RatMin(<<1, 1>>, RatMax(<<0, 1>>, Rat(span.startSize - span.lastSize, span.startSize)))
                   ELSE <<0, 1>>,
     sizeDelta |-> span.startSize - span.lastSize,
     sizeDeltaPct |-> IF span.startSize > 0
                      THEN Rat(span.lastSize - span.startSize, span.startSize)
                      ELSE <<0, 1>>,
     tradeBuyQty |-> span.tradeBuyQty, tradeSellQty |-> span.tradeSellQty,
     tradeCount |-> span.tradeCount]

\* getActive, map callback: the projection of one active span at time now.
activeRow(span, now) ==
    [startTs |-> span.startTs, endTs |-> now,
     durationMs |-> Max(0, now - span.startTs),
     symbol |-> span.symbol, market |-> span.market, exchange |-> span.exchange,
     side |-> span.side, price |-> span.price,
     maxZ |-> span.maxZ, avgZ |-> avgZOf(span), count |-> span.count,
     startSize |-> span.startSize, endSize |-> span.lastSize,
     filledPct |-> filledPctOf(span),
     sizeDelta |-> span.lastSize - span.startSize,
     sizeDeltaPct |-> sizeDeltaPctOf(span),
     tradeBuyQty |-> span.tradeBuyQty, tradeSellQty |-> span.tradeSellQty,
     tradeCount |-> span.tradeCount]

\* OutlierSpanTracker.getActive() at Date.now() = now.
getActive(act, ord, now) == [i \in 1..Len(ord) |-> activeRow(act[ord[i]], now)]

(***************************************************************************)
(* Inputs.                                                                 *)
(***************************************************************************)
K1 == [symbol |-> "BTCUSDT", market |-> "Spot", exchange |-> "Bybit", side |-> "Bid", price |-> 3999]
K2 == [symbol |-> "BTCUSDT", market |-> "Spot", exchange |-> "Bybit", side |-> "Ask", price |-> 4003]
K3 == [symbol |-> "ETHUSDT", market |-> "Spot", exchange |-> "MEXC", side |-> "Bid", price |-> 3999]

\* The keys in the order the tick emits their records.
KeyOrder == <<K1, K2, K3>>

\* What a record carries beside its key: Date.now() (the wall clock may step
\* back), the z-score and the level size.  Bid levels shrink and grow; ask
\* levels also start or end at size 0.
RecVals(k) ==
    IF k.side = "Bid"
    THEN {[ts |-> 1, zScore |-> 7, size |-> 500], [ts |-> 2, zScore |-> 6, size |-> 450]}
    ELSE {[ts |-> 1, zScore |-> 7, size |-> 0], [ts |-> 2, zScore |-> 6, size |-> 450]}

Nows == {1, 2}

mkRecord(k, v) ==
    [ts |-> v.ts, symbol |-> k.symbol, market |-> k.market, exchange |-> k.exchange,
     side |-> k.side, price |-> k.price, zScore |-> v.zScore, size |-> v.size]

\* The records of one update call: one per chosen key, in emission order.
mkRecords(S, f) ==
    LET ks == SelectSeq(KeyOrder, LAMBDA k : k \in S)
    IN [i \in 1..Len(ks) |-> mkRecord(ks[i], f[ks[i]])]

RecordLists(keys) ==
    UNION {{mkRecords(S, f) : f \in {g \in [S -> UNION {RecVals(k) : k \in S}] :
                                        \A k \in S : g[k] \in RecVals(k)}} : S \in SUBSET keys}

mkTrade(sym, mkt, ex, px, sd, q) ==
    [ts |-> 1, symbol |-> sym, market |-> mkt, exchange |-> ex, price |-> px, qty |-> q, side |-> sd]

\* The trades of the lifecycle specification: one that matches K1 (at exactly
\* 5 bps) and K2, one that matches only K2.
FewTrades ==
    {mkTrade("BTCUSDT", "Spot", "Bybit", 4001, "Buy", 25),
     mkTrade("BTCUSDT", "Spot", "Bybit", 4002, "Sell", 10)}

(***************************************************************************)
(* History kept beside the tracker, to state what a span has seen.         *)
(***************************************************************************)
\* A trade counts for a key when symbol and market are equal, the exchange is
\* equal ignoring case, and bps = |a - b| / ((a + b)/2) * 10^4 is at most 5.
WithinBps(a, b) == RatLeq(Rat(Abs(a - b) * 10000 * 2, a + b), <<5, 1>>)

CountsFor(k, t) ==
    /\ k.symbol = t.symbol
    /\ k.market = t.market
    /\ toLowerCase(k.exchange) = toLowerCase(t.exchange)
    /\ WithinBps(k.price, t.price)

\* A tally of the trades that counted for a span: how many, the bought and
\* sold quantities, and how many came after the span's latest record.
NoTrades == [n |-> 0, buy |-> 0, sell |-> 0, late |-> 0]

Tally(c, t) ==
    [n |-> c.n + 1,
     buy |-> c.buy + (IF t.side = "Buy" THEN t.qty ELSE 0),
     sell |-> c.sell + (IF t.side = "Buy" THEN 0 ELSE t.qty),
     late |-> c.late + 1]

HistRec(record) == [ts |-> record.ts, zScore |-> record.zScore, size |-> record.size]

(***************************************************************************)
(* Order-book adapters.  A BookMap is a function price -> size; prices are  *)
(* finite numbers, so the order of Array.from(map.entries()) does not show  *)
(* through the sort.  The handlers treat the BookState of each symbol on    *)
(* its own: the model keeps one symbol per adapter.                         *)
(***************************************************************************)
Adapters == {"IncrementalWS", "SnapshotWS", "SnapshotPoll"}

\* Number(raw) on the decimal numerals the venues send.
toNumber(raw) ==
    CASE raw = "100" -> 100
      [] raw = "101" -> 101
      [] raw = "102" -> 102
      [] raw = "5" -> 5
      [] raw = "5.0" -> 5
      [] raw = "0" -> 0
      [] raw = "0.00" -> 0
      [] raw = "-3" -> -3
      [] raw = "100.0" -> 100
      [] raw = "101.0" -> 101
      [] raw = "2.0" -> 2
      [] raw = "1.0" -> 1
      [] raw = "98" -> 98
      [] raw = "99" -> 99
      [] raw = "1" -> 1
      [] raw = "2" -> 2
      [] raw = "3" -> 3

emptySideStats == [adds |-> 0, changes |-> 0, removals |-> 0, sizeDelta |-> 0]

\* new LevelTracker()
NewTracker == [levels |-> Empty, stats |-> [bids |-> emptySideStats, asks |-> emptySideStats]]

\* { bids: new Map(), asks: new Map(), tracker: new LevelTracker() }
NewBookState == [bids |-> Empty, asks |-> Empty, tracker |-> NewTracker]

\* map.set(k, v) and map.delete(k)
MapSet(map, k, v) == [x \in DOMAIN map \cup {k} |-> IF x = k THEN v ELSE map[x]]
MapDelete(map, k) == [x \in DOMAIN map \ {k} |-> map[x]]

\* map.has(price) ? map.get(price)! : null; null is <<>>, a size s is <<s>>.
PrevSize(map, price) == IF price \in DOMAIN map THEN <<map[price]>> ELSE <<>>

recordUpdate_CountsEqualSize(tracker, side, price, nextSize, prevSize) ==
    LET sideStats == tracker.stats[side]
    IN IF prevSize = <<>> /\ nextSize > 0
       THEN [levels |-> MapSet(tracker.levels, <<side, price>>, nextSize),
             stats |-> [tracker.stats EXCEPT ![side] =
                          [sideStats EXCEPT !.adds = @ + 1, !.sizeDelta = @ + nextSize]]]
       ELSE IF prevSize # <<>> /\ nextSize = 0
       THEN [levels |-> MapDelete(tracker.levels, <<side, price>>),
             stats |-> [tracker.stats EXCEPT ![side] =
                          [sideStats EXCEPT !.removals = @ + 1,
                                            !.sizeDelta = @ + prevSize[1]]]]
       ELSE IF prevSize # <<>>
       THEN [levels |-> MapSet(tracker.levels, <<side, price>>, nextSize),
             stats |-> [tracker.stats EXCEPT ![side] =
                          [sideStats EXCEPT !.changes = @ + 1,
                                            !.sizeDelta = @ + Abs(nextSize - prevSize[1])]]]
       ELSE tracker

\* LevelTracker.recordUpdate; the key `${side}:${price}` is <<side, price>>.
recordUpdate(tracker, side, price, nextSize, prevSize) ==
    LET k == <<side, price>>
        sideStats == tracker.stats[side]
    IN IF prevSize = <<>> /\ nextSize > 0
       THEN [levels |-> MapSet(tracker.levels, k, nextSize),
             stats |-> [tracker.stats EXCEPT ![side] =
                          [sideStats EXCEPT !.adds = @ + 1, !.sizeDelta = @ + nextSize]]]
       ELSE IF prevSize # <<>> /\ nextSize = 0
       THEN [levels |-> MapDelete(tracker.levels, k),
             stats |-> [tracker.stats EXCEPT ![side] =
                          [sideStats EXCEPT !.removals = @ + 1,
                                            !.sizeDelta = @ + prevSize[1]]]]
       ELSE IF prevSize # <<>> /\ nextSize # prevSize[1]
       THEN [levels |-> MapSet(tracker.levels, k, nextSize),
             stats |-> [tracker.stats EXCEPT ![side] =
                          [sideStats EXCEPT !.changes = @ + 1,
                                            !.sizeDelta = @ + Abs(nextSize - prevSize[1])]]]
       ELSE tracker

\* LevelTracker.snapshotAndReset: the counters returned and the tracker left.
snapshotAndReset(tracker) ==
    [snapshot |-> tracker.stats,
     tracker |-> [tracker EXCEPT !.stats = [bids |-> emptySideStats, asks |-> emptySideStats]]]

\* BybitOrderbook.applyUpdates, from update i on.
RECURSIVE applyUpdatesFrom(_, _, _, _)
applyUpdatesFrom(st, side, updates, i) ==
    IF i > Len(updates) THEN st
    ELSE LET price == toNumber(updates[i][1])
             size == toNumber(updates[i][2])
             map == st[side]
             prevSize == PrevSize(map, price)
             nextMap == IF size = 0 THEN MapDelete(map, price) ELSE MapSet(map, price, size)
             next == [st EXCEPT ![side] = nextMap,
                                !.tracker = recordUpdate(@, side, price, size, prevSize)]
         IN applyUpdatesFrom(next, side, updates, i + 1)

\* applyUpdates that takes the message as the whole side: the side is
\* emptied first.
applyUpdates_Replace(st, side, updates) ==
    applyUpdatesFrom([st EXCEPT ![side] = Empty], side, updates, 1)

\* BybitOrderbook.applyUpdates
applyUpdates(st, side, updates) == applyUpdatesFrom(st, side, updates, 1)

\* The first loop of applySnapshot: acc is [nextMap, tracker].
RECURSIVE snapshotLevels(_, _, _, _, _)
snapshotLevels(acc, prevMap, side, snapshot, i) ==
    IF i > Len(snapshot) THEN acc
    ELSE LET price == toNumber(snapshot[i][1])
             size == toNumber(snapshot[i][2])
             next == IF size <= 0 THEN acc
                     ELSE [nextMap |-> MapSet(acc.nextMap, price, size),
                           tracker |-> recordUpdate(acc.tracker, side, price, size,
                                                    PrevSize(prevMap, price))]
         IN snapshotLevels(next, prevMap, side, snapshot, i + 1)

\* The second loop of applySnapshot: a removal for every price of prevMap
\* that nextMap does not have.
RECURSIVE snapshotRemovals(_, _, _, _)
snapshotRemovals(tracker, prevMap, side, prices) ==
    IF prices = {} THEN tracker
    ELSE LET price == CHOOSE p \in prices : TRUE
         IN snapshotRemovals(recordUpdate(tracker, side, price, 0, <<prevMap[price]>>),
                             prevMap, side, prices \ {price})

\* MexcOrderbook.applySnapshot and MexcSpotOrderbook.applySnapshot
applySnapshot(st, side, snapshot) ==
    LET prevMap == st[side]
        acc == snapshotLevels([nextMap |-> Empty, tracker |-> st.tracker], prevMap, side,
                              snapshot, 1)
        gone == DOMAIN prevMap \ DOMAIN acc.nextMap
    IN [st EXCEPT ![side] = acc.nextMap,
                  !.tracker = snapshotRemovals(acc.tracker, prevMap, side, gone)]

\* entries.sort(...): descending by price for bids, ascending for asks.
RECURSIVE sortEntries(_, _)
sortEntries(map, side) ==
    IF DOMAIN map = {} THEN <<>>
    ELSE LET first == CHOOSE p \in DOMAIN map :
                         \A q \in DOMAIN map : IF side = "bids" THEN q <= p ELSE p <= q
         IN <<<<first, map[first]>>>> \o sortEntries(MapDelete(map, first), side)

sortLevels(map, side, depth) ==
    LET entries == sortEntries(map, side)
    IN SubSeq(entries, 1, Min(depth, Len(entries)))

\* normalizeSide on levels given as [price, size] arrays of finite numerals.
normalizeSide(raw) == [i \in 1..Len(raw) |-> <<toNumber(raw[i][1]), toNumber(raw[i][2])>>]

(***************************************************************************)
(* Actions of the tracker.                                                 *)
(***************************************************************************)
NoTrade == mkTrade("", "", "", 0, "", 0)
Call(op, records, trade, now, rows) ==
    [op |-> op, records |-> records, trade |-> trade, now |-> now, rows |-> rows]

\* The perp path before the first message: perpLatest and lastSnapshot have
\* no entry for the symbol (<<>>), each perp adapter owns a fresh tracker,
\* the stores are empty and nothing was broadcast.
Venues == {"bybit", "mexc"}
NewPerp ==
    [latest |-> [v \in Venues |-> <<>>],
     tracker |-> [v \in Venues |-> NewTracker],
     lastSnapshot |-> <<>>,
     store |-> <<>>,
     largeMoves |-> <<>>,
     sent |-> <<>>]

\* The stores with an in-memory cache, empty at construction over an empty
\* DB, and the clock Date.now().
StoreNames == {"metrics", "liquidations", "oi_funding", "trades", "outliers", "outlier_spans"}
NewStores == [now |-> 0, s |-> [n \in StoreNames |-> [data |-> <<>>, db |-> <<>>]]]

\* The websocket feeds, and the process at start-up: running, every feed
\* with a socket that is connecting, no reconnect timer pending and no
\* liquidation polling timer.
Feeds == {"spotBookA", "perpBookA", "perpBookB", "liquidations", "oiFundingA", "oiFundingB",
          "trades"}
NewProc ==
    [alive |-> TRUE,
     socket |-> [f \in Feeds |-> "connecting"],
     subscribed |-> [f \in Feeds |-> FALSE],
     timer |-> [f \in Feeds |-> FALSE],
     pollTimers |-> 0]

Init ==
    /\ active = Empty
    /\ order = <<>>
    /\ store = <<>>
    /\ hist = Empty
    /\ seenTrades = Empty
    /\ storeHist = <<>>
    /\ storeTrades = <<>>
    /\ cands = {}
    /\ state = [a \in Adapters |-> NewBookState]
    /\ msg = NoMsg
    /\ perp = NewPerp
    /\ stores = NewStores
    /\ proc = NewProc
    /\ last = Call("new", <<>>, NoTrade, 0, <<>>)
    /\ steps = 0

\* What one update call adds to the history: h is [hist, seenTrades,
\* storeHist, storeTrades], ord the iteration order of the map before the call.
histUpdate(h, ord, records) ==
    LET seen == {key(records[i]) : i \in 1..Len(records)}
        gone == closing(ord, seen)
        recOf(k) == CHOOSE r \in Range(records) : key(r) = k
    IN [hist |-> [k \in seen |-> IF k \in DOMAIN h.hist
                                 THEN Append(h.hist[k], HistRec(recOf(k)))
                                 ELSE <<HistRec(recOf(k))>>],
        seenTrades |-> [k \in seen |-> IF k \in DOMAIN h.seenTrades
                                       THEN [h.seenTrades[k] EXCEPT !.late = 0]
                                       ELSE NoTrades],
        storeHist |-> h.storeHist \o [i \in 1..Len(gone) |-> h.hist[gone[i]]],
        storeTrades |-> h.storeTrades \o [i \in 1..Len(gone) |-> h.seenTrades[gone[i]]]]

Tracker == [active |-> active, order |-> order, store |-> store]
History == [hist |-> hist, seenTrades |-> seenTrades, storeHist |-> storeHist,
            storeTrades |-> storeTrades]

SetTracker(trk, h) ==
    /\ active' = trk.active
    /\ order' = trk.order
    /\ store' = trk.store
    /\ hist' = h.hist
    /\ seenTrades' = h.seenTrades
    /\ storeHist' = h.storeHist
    /\ storeTrades' = h.storeTrades
    /\ UNCHANGED <<state, perp, stores, proc>>

Update(records) ==
    /\ SetTracker(update(Tracker, records), histUpdate(History, order, records))
    /\ last' = Call("update", records, NoTrade, 0, <<>>)
    /\ UNCHANGED <<cands, msg>>

RecordTrade(input) ==
    /\ active' = recordTrade(active, input)
    /\ seenTrades' = [k \in DOMAIN seenTrades |->
                        IF CountsFor(k, input) THEN Tally(seenTrades[k], input)
                        ELSE seenTrades[k]]
    /\ last' = Call("recordTrade", <<>>, input, 0, <<>>)
    /\ UNCHANGED <<order, store, hist, storeHist, storeTrades, cands, state, msg, perp,
                   stores, proc>>

GetActive(now) ==
    /\ last' = Call("getActive", <<>>, NoTrade, now, getActive(active, order, now))
    /\ UNCHANGED <<active, order, store, hist, seenTrades, storeHist, storeTrades, cands,
                   state, msg, perp, stores, proc>>

Step == steps < MaxSteps /\ steps' = steps + 1

\* The tick path calls update with the outlier records of the moment.
TickUpdate == \E records \in RecordLists({K1, K2}) : Step /\ Update(records)

\* The trade-feed path calls recordTrade.
TradeFeed == \E t \in FewTrades : Step /\ RecordTrade(t)

\* An HTTP handler calls getActive.
ReadActive == \E now \in Nows : Step /\ GetActive(now)

Next == TickUpdate \/ TradeFeed \/ ReadActive

Spec == Init /\ [][Next]_vars

(***************************************************************************)
(* Claims about the span lifecycle (specification Spec).                   *)
(***************************************************************************)
KeysOf(records) == {key(records[i]) : i \in 1..Len(records)}
RowKey(row) == key(row)
Appended(old, new) == SubSeq(new, Len(old) + 1, Len(new))

\* C1: after update(C) the active keys are exactly the keys of C; a key of C
\* that was not active is opened with count 1, one that was active is extended
\* (count + 1, lastTs = record ts, maxZ = max(maxZ, zScore)); every key that
\* was active and is absent from C leaves the map and gets exactly one row
\* appended to the store, and nothing else is appended.
C1_UpdatePost ==
    LET C == last'.records
        new == Appended(store, store')
    IN /\ DOMAIN active' = KeysOf(C)
       /\ \A i \in 1..Len(C) :
            LET r == C[i]
                k == key(r)
            IN IF k \in DOMAIN active
               THEN /\ active'[k].count = active[k].count + 1
                    /\ active'[k].lastTs = r.ts
                    /\ active'[k].maxZ = Max(active[k].maxZ, r.zScore)
               ELSE active'[k].count = 1
       /\ Len(store') >= Len(store)
       /\ SubSeq(store', 1, Len(store)) = store
       /\ \A k \in DOMAIN active \ KeysOf(C) :
            Cardinality({i \in 1..Len(new) : RowKey(new[i]) = k}) = 1
       /\ Len(new) = Cardinality(DOMAIN active \ KeysOf(C))

C1_UpdateOpensExtendsCloses == [][last'.op = "update" => C1_UpdatePost]_vars

\* C1 witness: one call of update extended K1 to count 2 and closed K2.
C1_Witness ==
    /\ last.op = "update"
    /\ steps = 2
    /\ DOMAIN active = {K1}
    /\ active[K1].count = 2
    /\ Len(store) = 1
    /\ RowKey(store[1]) = K2

ClampUnit(r) == IF RatLeq(r, <<0, 1>>) THEN <<0, 1>> ELSE IF RatLeq(<<1, 1>>, r) THEN <<1, 1>> ELSE r

\* The row a span with record history h and trade tally t must close with.
RowMatches(row, h, t) ==
    LET first == h[1]
        final == h[Len(h)]
    IN /\ row.startTs = first.ts
       /\ row.startSize = first.size
       /\ row.endTs = final.ts
       /\ row.endSize = final.size
       /\ row.count = Len(h)
       /\ row.maxZ = MaxZOf(h)
       /\ RatEq(row.avgZ, <<SumZ(h), Len(h)>>)
       /\ row.durationMs = Max(0, final.ts - first.ts)
       /\ row.sizeDelta = final.size - first.size
       /\ IF first.size <= 0
          THEN RatEq(row.sizeDeltaPct, <<0, 1>>) /\ RatEq(row.filledPct, <<0, 1>>)
          ELSE /\ RatEq(row.sizeDeltaPct, <<final.size - first.size, first.size>>)
               /\ RatEq(row.filledPct, ClampUnit(<<first.size - final.size, first.size>>))
       /\ row.tradeCount = t.n
       /\ row.tradeBuyQty = t.buy
       /\ row.tradeSellQty = t.sell

\* C3: a closed row carries startTs/startSize of the span's first record,
\* endTs/endSize of its last, count = number of records, maxZ = their maximum,
\* avgZ = their sum / count, durationMs = max(0, lastTs - startTs), sizeDelta,
\* sizeDeltaPct and filledPct as defined (0 when startSize <= 0), and the trade
\* counters accumulated while the span was active.
C3_ClosedRowFields ==
    /\ Len(storeHist) = Len(store)
    /\ Len(storeTrades) = Len(store)
    /\ \A i \in 1..Len(store) : RowMatches(store[i], storeHist[i], storeTrades[i])

\* C3 witness: the worked example (500 -> 450, z 7 and 6, one Buy of 25).
C3_Witness ==
    \E i \in 1..Len(store) :
        /\ store[i].count = 2
        /\ store[i].startSize = 500
        /\ store[i].endSize = 450
        /\ RatEq(store[i].filledPct, <<1, 10>>)
        /\ store[i].maxZ = 7
        /\ RatEq(store[i].avgZ, <<13, 2>>)
        /\ store[i].tradeBuyQty = 25
        /\ store[i].tradeSellQty = 0
        /\ store[i].tradeCount = 1

\* C4: every row of the span store has endTs >= startTs.
C4_EndNotBeforeStart == \A i \in 1..Len(store) : store[i].endTs >= store[i].startTs

ActiveRowsOk(rows, now, act, ord, durationOf(_, _)) ==
    /\ Len(rows) = Cardinality(DOMAIN act)
    /\ \A i \in 1..Len(rows) :
          LET span == act[ord[i]]
              closed == closeRow(span)
          IN /\ rows[i].endTs = now
             /\ rows[i].durationMs = durationOf(now, span.startTs)
             /\ [rows[i] EXCEPT !.endTs = closed.endTs, !.durationMs = closed.durationMs] = closed

PlainDuration(now, startTs) == now - startTs
ClampedDuration(now, startTs) == Max(0, now - startTs)

\* C9 as stated: getActive changes neither the active map nor the store and
\* returns one row per active span with endTs = now, durationMs = now - startTs
\* and the derived fields of the closed row.
C9_AsStated ==
    [][last'.op = "getActive" =>
          /\ active' = active /\ order' = order /\ store' = store
          /\ ActiveRowsOk(last'.rows, last'.now, active, order, PlainDuration)]_vars

\* C9 amended: the same, with durationMs = max(0, now - startTs).
C9_GetActiveProjection ==
    [][last'.op = "getActive" =>
          /\ active' = active /\ order' = order /\ store' = store
          /\ ActiveRowsOk(last'.rows, last'.now, active, order, ClampedDuration)]_vars

\* C9 witness: getActive returned two rows, one for a span that started after
\* `now` and one for a span of two records with trades credited.
C9_Witness ==
    /\ last.op = "getActive"
    /\ Len(last.rows) = 2
    /\ \E i \in 1..2 : last.rows[i].startTs > last.now /\ last.rows[i].durationMs = 0
    /\ \E i \in 1..2 : last.rows[i].count = 2 /\ last.rows[i].tradeCount = 1

(***************************************************************************)
(* The trade path against the tick path (specification TradeSpec): updates *)
(* over three keys of two symbols and two venues, and every kind of trade.  *)
(***************************************************************************)
Steady == [ts |-> 1, zScore |-> 7, size |-> 500]

SteadyLists == {mkRecords(S, [k \in S |-> Steady]) : S \in SUBSET {K1, K2, K3}}

\* Trades of either symbol, market and venue (the feed's exchange name in any
\* case), at 4001 (5 bps from 3999, under 5 from 4003) and 4002 (over 5 bps
\* from 3999), bought or sold.
AllTrades ==
    {mkTrade(sm[1], sm[2], ex, px, sd, 25) :
        sm \in {<<"BTCUSDT", "Spot">>, <<"ETHUSDT", "Spot">>, <<"BTCUSDT", "Perp">>},
        ex \in {"bybit", "MEXC"}, px \in {4001, 4002}, sd \in {"Buy", "Sell"}}

TradeStep == steps < MaxTradeSteps /\ steps' = steps + 1

SpanTick == \E records \in SteadyLists : TradeStep /\ Update(records)

TradePrint == \E t \in AllTrades : TradeStep /\ RecordTrade(t)

TradeNext == SpanTick \/ TradePrint

TradeSpec == Init /\ [][TradeNext]_vars

Counters(span) == <<span.tradeBuyQty, span.tradeSellQty, span.tradeCount>>

\* C6: recordTrade(trade) adds trade.qty to tradeBuyQty (side Buy) or to
\* tradeSellQty (otherwise) and 1 to tradeCount of every active span with the
\* trade's symbol and market, its exchange ignoring case, and a price within
\* 5 bps of the trade price; once per trade, whatever the span's side.
C6_TradeCreditsMatchingSpans ==
    [][last'.op = "recordTrade" =>
          \A k \in DOMAIN active :
              CountsFor(k, last'.trade) =>
                  /\ k \in DOMAIN active'
                  /\ active'[k].tradeCount = active[k].tradeCount + 1
                  /\ IF last'.trade.side = "Buy"
                     THEN /\ active'[k].tradeBuyQty = active[k].tradeBuyQty + last'.trade.qty
                          /\ active'[k].tradeSellQty = active[k].tradeSellQty
                     ELSE /\ active'[k].tradeSellQty = active[k].tradeSellQty + last'.trade.qty
                          /\ active'[k].tradeBuyQty = active[k].tradeBuyQty]_vars

\* C6 witness: one Sell reported by exchange "bybit" at 4001 credited the bid
\* span K1 (exactly 5 bps away) and the ask span K2 of exchange "Bybit".
C6_Witness ==
    /\ last.op = "recordTrade"
    /\ last.trade.exchange = "bybit"
    /\ last.trade.side = "Sell"
    /\ last.trade.price = 4001
    /\ steps = 2
    /\ {K1, K2} \subseteq DOMAIN active
    /\ Counters(active[K1]) = <<0, 25, 1>>
    /\ Counters(active[K2]) = <<0, 25, 1>>

\* C7: recordTrade leaves the three trade counters unchanged for every active
\* span whose price is more than 5 bps from the trade price, or whose symbol,
\* market or exchange (compared ignoring case, as in C6) differs from the
\* trade's.
C7_TradeLeavesOtherSpans ==
    [][last'.op = "recordTrade" =>
          \A k \in DOMAIN active :
              (\/ ~WithinBps(k.price, last'.trade.price)
               \/ k.symbol # last'.trade.symbol
               \/ k.market # last'.trade.market
               \/ toLowerCase(k.exchange) # toLowerCase(last'.trade.exchange)) =>
                  /\ k \in DOMAIN active'
                  /\ Counters(active'[k]) = Counters(active[k])]_vars

\* C7 witness: a trade at 4002 credited K2 and left K1 (over 5 bps away) and
\* K3 (other symbol and venue) untouched.
C7_Witness ==
    /\ last.op = "recordTrade"
    /\ last.trade.price = 4002
    /\ steps = 2
    /\ DOMAIN active = {K1, K2, K3}
    /\ Counters(active[K1]) = <<0, 0, 0>>
    /\ Counters(active[K2]) = <<25, 0, 1>>
    /\ Counters(active[K3]) = <<0, 0, 0>>

\* C8: recordTrade and update run one at a time; the row of a closed span has
\* tradeCount equal to the number of trades that counted for it between its
\* opening and the update that closed it, those after its last extension
\* included; a trade recorded later changes no row of the store.
C8_TradesUntilClose ==
    [][/\ last'.op = "recordTrade" => store' = store
       /\ last'.op = "update" =>
             \A i \in (Len(store) + 1)..Len(store') :
                 /\ RowKey(store'[i]) \in DOMAIN seenTrades
                 /\ store'[i].tradeCount = seenTrades[RowKey(store'[i])].n]_vars

\* C8 witness: a span was opened, extended, then credited a trade, then closed.
C8_Witness ==
    /\ last.op = "update"
    /\ \E i \in 1..Len(store) :
          /\ store[i].count = 2
          /\ store[i].tradeCount = 1
          /\ storeTrades[i].late = 1

(***************************************************************************)
(* The metrics tick (specification TickSpec): for each configured symbol,  *)
(* in order, the spot outliers of that symbol are handed to update.        *)
(***************************************************************************)
\* config.symbols
Symbols == <<"BTCUSDT", "ETHUSDT">>

\* What the tick finds for one symbol: no spot book of either venue yet (the
\* symbol is skipped), or the outlier records of its levels.
SymbolInputs(symbol) ==
    {[present |-> FALSE, records |-> <<>>]} \cup
    {[present |-> TRUE, records |-> mkRecords(S, [k \in S |-> Steady])] :
        S \in SUBSET {k \in {K1, K2, K3} : k.symbol = symbol}}

TickInputs ==
    {f \in [1..Len(Symbols) -> UNION {SymbolInputs(Symbols[i]) : i \in 1..Len(Symbols)}] :
        \A i \in 1..Len(Symbols) : f[i] \in SymbolInputs(Symbols[i])}

\* The loop `for (const symbol of config.symbols)`, from symbol i on; st is
\* [trk, h]: the tracker and the history.
RECURSIVE tickLoop(_, _, _)
tickLoop(st, inputs, i) ==
    IF i > Len(Symbols) THEN st
    ELSE LET in == inputs[i]
             next == IF in.present
                     THEN [trk |-> update(st.trk, in.records),
                           h |-> histUpdate(st.h, st.trk.order, in.records)]
                     ELSE st
         IN tickLoop(next, inputs, i + 1)

RECURSIVE Concat(_, _)
Concat(inputs, i) ==
    IF i > Len(Symbols) THEN <<>> ELSE inputs[i].records \o Concat(inputs, i + 1)

\* One run of the setInterval callback.
Tick(inputs) ==
    LET st == tickLoop([trk |-> Tracker, h |-> History], inputs, 1)
    IN /\ SetTracker(st.trk, st.h)
       /\ cands' = KeysOf(Concat(inputs, 1))
       /\ last' = Call("tick", Concat(inputs, 1), NoTrade, 0, <<>>)
       /\ UNCHANGED msg

TickStep == steps < MaxTickSteps /\ steps' = steps + 1

MetricsTick == \E inputs \in TickInputs : TickStep /\ Tick(inputs)

TickTrade == \E t \in FewTrades : TickStep /\ RecordTrade(t)

TickNext == MetricsTick \/ TickTrade

TickSpec == Init /\ [][TickNext]_vars

\* C2: with two or more symbols, a key that is among its symbol's outliers on
\* consecutive ticks stays in one active span (count grows by one per tick),
\* and a tick closes only keys that are not among its outliers.
C2_SpanSurvivesOtherSymbols ==
    [][last'.op = "tick" =>
          /\ \A k \in cands \cap cands' :
                /\ k \in DOMAIN active
                /\ k \in DOMAIN active'
                /\ active'[k].count = active[k].count + 1
          /\ \A i \in (Len(store) + 1)..Len(store') : RowKey(store'[i]) \notin cands']_vars

(***************************************************************************)
(* The adapters' message handlers (specification BookSpec).                *)
(***************************************************************************)
\* The levels a venue message may carry for one side: none, one, or two of
\* which the first is at the lower price (the second may repeat that price).
RawLevel(prices, sizes) == {<<p, q>> : p \in prices, q \in sizes}

BidSizes == {"5", "0.00", "-3"}

BidLevels ==
    {<<>>} \cup {<<u>> : u \in RawLevel({"100", "101"}, BidSizes)}
           \cup {<<u, v>> : u \in RawLevel({"100"}, BidSizes),
                            v \in RawLevel({"100", "101"}, BidSizes)}

AskLevels == {<<>>, <<<<"102", "5.0">>>>, <<<<"102", "0">>>>}

\* onUpdate(symbol, sortedBids, sortedAsks, tracker)
Deliver(adapter, st) ==
    [op |-> "onUpdate", adapter |-> adapter,
     bids |-> sortLevels(st.bids, "bids", Depth),
     asks |-> sortLevels(st.asks, "asks", Depth)]

TrackerVars == <<active, order, store, hist, seenTrades, storeHist, storeTrades, cands, perp,
                stores, proc>>

\* BybitOrderbook: the "message" handler, for an orderbook topic of a
\* configured symbol.
BybitMessage(b, a) ==
    LET st == applyUpdates(applyUpdates(state["IncrementalWS"], "bids", b), "asks", a)
    IN /\ state' = [state EXCEPT !["IncrementalWS"] = st]
       /\ last' = Deliver("IncrementalWS", st)
       /\ UNCHANGED TrackerVars

\* MexcOrderbook: the "message" handler, for a depth message of a configured
\* symbol; a message with no level on either side is dropped.
MexcMessage(b, a) ==
    LET bids == normalizeSide(b)
        asks == normalizeSide(a)
        st == applySnapshot(applySnapshot(state["SnapshotWS"], "bids", b), "asks", a)
    IN /\ ~(Len(bids) = 0 /\ Len(asks) = 0)
       /\ state' = [state EXCEPT !["SnapshotWS"] = st]
       /\ last' = Deliver("SnapshotWS", st)
       /\ UNCHANGED TrackerVars

\* MexcSpotOrderbook.poll, for one symbol whose response is ok.
MexcSpotPoll(b, a) ==
    LET st == applySnapshot(applySnapshot(state["SnapshotPoll"], "bids", b), "asks", a)
    IN /\ state' = [state EXCEPT !["SnapshotPoll"] = st]
       /\ last' = Deliver("SnapshotPoll", st)
       /\ UNCHANGED TrackerVars

BookStep == steps < MaxBookSteps /\ steps' = steps + 1

IncrementalWS ==
    \E b \in BidLevels, a \in AskLevels : BookStep /\ BybitMessage(b, a) /\ UNCHANGED msg

SnapshotWS ==
    \E b \in BidLevels, a \in AskLevels : BookStep /\ MexcMessage(b, a) /\ UNCHANGED msg

SnapshotPoll ==
    \E b \in BidLevels, a \in AskLevels : BookStep /\ MexcSpotPoll(b, a) /\ UNCHANGED msg

BookNext == IncrementalWS \/ SnapshotWS \/ SnapshotPoll

BookSpec == Init /\ [][BookNext]_vars

StrictlyDecreasing(levels) == \A i \in 1..(Len(levels) - 1) : levels[i][1] > levels[i + 1][1]
StrictlyIncreasing(levels) == \A i \in 1..(Len(levels) - 1) : levels[i][1] < levels[i + 1][1]

PositiveSizes(adapter) ==
    \A side \in {"bids", "asks"} :
        \A p \in DOMAIN state[adapter][side] : state[adapter][side][p] > 0

SortedTopN ==
    last.op = "onUpdate" =>
        /\ StrictlyDecreasing(last.bids)
        /\ StrictlyIncreasing(last.asks)
        /\ Len(last.bids) <= Depth
        /\ Len(last.asks) <= Depth

\* C10: for every adapter and every sequence of venue messages, no BookState
\* entry has size <= 0, and the top-N arrays delivered to onUpdate are strictly
\* decreasing by price (bids), strictly increasing by price (asks) and have
\* at most depth entries.
C10_BookInvariant == (\A adapter \in Adapters : PositiveSizes(adapter)) /\ SortedTopN

(***************************************************************************)
(* The IncrementalWS adapter alone, with the message of each step kept in  *)
(* msg and the tick's snapshot-and-reset of its tracker (DeltaSpec).       *)
(***************************************************************************)
DeltaSizes == {"2.0", "1.0", "0", "-3"}
DeltaBid == RawLevel({"100.0", "101.0"}, DeltaSizes)
DeltaAsk == RawLevel({"102"}, {"2.0", "0"})

\* Messages of one or two updates: one bid, the same bid twice, a bid at each
\* price, one ask, or a bid and an ask.
DeltaMsgs ==
    {[b |-> <<u>>, a |-> <<>>] : u \in DeltaBid}
    \cup {[b |-> <<u, u>>, a |-> <<>>] : u \in DeltaBid}
    \cup {[b |-> <<u, v>>, a |-> <<>>] : u \in RawLevel({"100.0"}, DeltaSizes),
                                         v \in RawLevel({"101.0"}, DeltaSizes)}
    \cup {[b |-> <<>>, a |-> <<w>>] : w \in DeltaAsk}
    \cup {[b |-> <<u>>, a |-> <<w>>] : u \in RawLevel({"100.0"}, DeltaSizes), w \in DeltaAsk}

DeltaStep == steps < MaxDeltaSteps /\ steps' = steps + 1

DeltaMessage ==
    \E m \in DeltaMsgs :
        /\ DeltaStep
        /\ BybitMessage(m.b, m.a)
        /\ msg' = [kind |-> "delta", b |-> m.b, a |-> m.a]

\* The perp path of the tick: bybitPerpState?.tracker.snapshotAndReset()
DeltaReset ==
    LET r == snapshotAndReset(state["IncrementalWS"].tracker)
    IN /\ DeltaStep
       /\ state' = [state EXCEPT !["IncrementalWS"].tracker = r.tracker]
       /\ last' = [op |-> "snapshotAndReset", stats |-> r.snapshot]
       /\ msg' = [kind |-> "reset"]
       /\ UNCHANGED TrackerVars

DeltaNext == DeltaMessage \/ DeltaReset

DeltaSpec == Init /\ [][DeltaNext]_vars

Bybit == state["IncrementalWS"]

\* An update that deletes a price the side does not hold, or sets a price to
\* the size the side holds for it.
NoOpUpdate(st, side, u) ==
    LET price == toNumber(u[1])
        size == toNumber(u[2])
    IN \/ size = 0 /\ price \notin DOMAIN st[side]
       \/ price \in DOMAIN st[side] /\ st[side][price] = size

\* C11: an IncrementalWS message whose updates each delete a price that is not
\* in the book, or set a price to the size it already has, leaves the
\* BookState and every LevelTracker counter unchanged, however often the
\* update is repeated.
C11_NoOpUpdates ==
    [][(/\ msg'.kind = "delta"
        /\ \A i \in 1..Len(msg'.b) : NoOpUpdate(Bybit, "bids", msg'.b[i])
        /\ \A i \in 1..Len(msg'.a) : NoOpUpdate(Bybit, "asks", msg'.a[i]))
       => state' = state]_vars

\* A set of 100 to the size it has and a delete of the absent 101, in one
\* message, after the message that added 100.
C11_Witness ==
    /\ steps = 2
    /\ msg = [kind |-> "delta", b |-> <<<<"100.0", "2.0">>, <<"101.0", "0">>>>, a |-> <<>>]
    /\ DOMAIN Bybit.bids = {100}
    /\ Bybit.bids[100] = 2
    /\ Bybit.tracker.stats.bids = [adds |-> 1, changes |-> 0, removals |-> 0, sizeDelta |-> 2]

OtherSide(side) == IF side = "bids" THEN "asks" ELSE "bids"

\* The counters of `side` after the single update u of a message, as stated.
AccountedUpdate(side, u) ==
    LET price == toNumber(u[1])
        size == toNumber(u[2])
        map == Bybit[side]
        old == Bybit.tracker.stats[side]
        new == Bybit.tracker.stats[side]'
    IN /\ (price \notin DOMAIN map /\ size # 0) =>
              new = [old EXCEPT !.adds = @ + 1, !.sizeDelta = @ + size]
       /\ (price \in DOMAIN map /\ size = 0) =>
              new = [old EXCEPT !.removals = @ + 1, !.sizeDelta = @ + map[price]]
       /\ (price \in DOMAIN map /\ size # 0 /\ size # map[price]) =>
              new = [old EXCEPT !.changes = @ + 1, !.sizeDelta = @ + Abs(size - map[price])]
       /\ Bybit.tracker.stats[OtherSide(side)]' = Bybit.tracker.stats[OtherSide(side)]

\* C12: LevelTracker accounting under the IncrementalWS adapter: setting an
\* absent price adds 1 to the side's adds and newSize to its sizeDelta, deleting
\* a present price adds 1 to removals and prevSize to sizeDelta, setting a
\* present price to another size adds 1 to changes and |new - prev| to
\* sizeDelta, and the other side's counters are unchanged.
C12_TrackerAccounting ==
    [][msg'.kind = "delta" =>
          /\ (Len(msg'.b) = 1 /\ Len(msg'.a) = 0) => AccountedUpdate("bids", msg'.b[1])
          /\ (Len(msg'.b) = 0 /\ Len(msg'.a) = 1) => AccountedUpdate("asks", msg'.a[1])]_vars

(***************************************************************************)
(* The snapshot adapters alone, with the snapshot of each step kept in msg *)
(* (SnapSpec).                                                             *)
(***************************************************************************)
SnapSizes == {"1", "2", "3", "-3"}
SnapBid == RawLevel({"98", "99", "100"}, SnapSizes)

\* Snapshots of a bid side: empty, one level, or a level at 100 followed by
\* any level (the same price again included).
SnapBids ==
    {<<>>} \cup {<<u>> : u \in SnapBid}
           \cup {<<u, v>> : u \in RawLevel({"100"}, SnapSizes), v \in SnapBid}

SnapAsks == {<<>>, <<<<"102", "2">>>>}

SnapStep == steps < MaxSnapSteps /\ steps' = steps + 1

SnapMsg(adapter, b, a) == [kind |-> "snapshot", adapter |-> adapter, bids |-> b, asks |-> a]

SnapWS ==
    \E b \in SnapBids, a \in SnapAsks :
        SnapStep /\ MexcMessage(b, a) /\ msg' = SnapMsg("SnapshotWS", b, a)

SnapPoll ==
    \E b \in SnapBids, a \in SnapAsks :
        SnapStep /\ MexcSpotPoll(b, a) /\ msg' = SnapMsg("SnapshotPoll", b, a)

SnapNext == SnapWS \/ SnapPoll

SnapSpec == Init /\ [][SnapNext]_vars

RECURSIVE SumMap(_, _)
SumMap(map, S) ==
    IF S = {} THEN 0
    ELSE LET p == CHOOSE x \in S : TRUE IN map[p] + SumMap(map, S \ {p})

\* What the claim says of one side after the snapshot `levels` was applied to
\* it: old and new are the side before and after, was and now its counters.
SnapshotApplied(levels, old, new, was, now) ==
    LET kept == {i \in 1..Len(levels) : toNumber(levels[i][2]) > 0}
        prices == {toNumber(levels[i][1]) : i \in kept}
        added == prices \ DOMAIN old
        both == prices \cap DOMAIN old
        changed == {p \in both : new[p] # old[p]}
        removed == DOMAIN old \ prices
    IN /\ DOMAIN new = prices
       /\ \A i \in kept : new[toNumber(levels[i][1])] = toNumber(levels[i][2])
       /\ now.adds = was.adds + Cardinality(added)
       /\ now.changes = was.changes + Cardinality(changed)
       /\ now.removals = was.removals + Cardinality(removed)
       /\ now.sizeDelta = was.sizeDelta + SumMap(new, added)
                            + SumMap([p \in changed |-> Abs(new[p] - old[p])], changed)
                            + SumMap(old, removed)

\* C13: after a snapshot adapter applies a snapshot to a side, the side holds
\* exactly the snapshot's levels of size > 0, and the tracker has counted one
\* add per price new to the book, one change per price held before with another
\* size, nothing for a price of unchanged size, and one removal (of the last
\* size) per price held before and absent from the snapshot.
C13_SnapshotDiff ==
    [][msg'.kind = "snapshot" =>
          \A side \in {"bids", "asks"} :
              SnapshotApplied(msg'[side], state[msg'.adapter][side],
                              state'[msg'.adapter][side],
                              state[msg'.adapter].tracker.stats[side],
                              state'[msg'.adapter].tracker.stats[side])]_vars

(***************************************************************************)
(* The spot path of the metrics tick: the z-score outlier detector run on  *)
(* the books the adapters delivered, and the span tracker updated with its *)
(* records (OutlierSpec).  z = (size - mean)/stdDev is compared exactly: *)
(* with n levels of sum S, dev = n*size - S and V the sum of the dev^2,    *)
(* z^2 = n*dev^2/V.  The zScore of a record keeps the integer part of z.   *)
(***************************************************************************)
OUTLIER_Z == 4

RECURSIVE SumSeq(_)
SumSeq(q) == IF q = <<>> THEN 0 ELSE Head(q) + SumSeq(Tail(q))

\* sizes.reduce((sum, size) => sum + size, 0)
SumSizes(levels) == SumSeq([j \in 1..Len(levels) |-> levels[j][2]])

\* n^3 * variance, for the sum S of the sizes
DevSquares(levels, S) ==
    SumSeq([j \in 1..Len(levels) |->
               (Len(levels) * levels[j][2] - S) * (Len(levels) * levels[j][2] - S)])

\* zScore >= threshold for a level of deviation dev = n*size - S, when
\* stdDev > 0 and threshold >= 0
ZAtLeast(n, dev, V, threshold) == dev >= 0 /\ n * dev * dev >= threshold * threshold * V

\* the integer part of a zScore >= 0
ZFloor(n, dev, V) ==
    CHOOSE z \in 0..n : ZAtLeast(n, dev, V, z) /\ ~ZAtLeast(n, dev, V, z + 1)

\* computeZScoreOutliers; mid is a fraction, ts the Date.now() of the call.
computeZScoreOutliers(symbol, market, exchange, side, levels, mid, ts) ==
    IF Len(levels) = 0 \/ ~(mid[1] > 0) THEN <<>>
    ELSE LET n == Len(levels)
             S == SumSizes(levels)
             V == DevSquares(levels, S)
             kept == SelectSeq([i \in 1..n |-> i],
                               LAMBDA i : ZAtLeast(n, n * levels[i][2] - S, V, OUTLIER_Z))
         IN IF V = 0 THEN <<>>
            ELSE [j \in 1..Len(kept) |->
                    [ts |-> ts, symbol |-> symbol, market |-> market, exchange |-> exchange,
                     side |-> side, price |-> levels[kept[j]][1], size |-> levels[kept[j]][2],
                     zScore |-> ZFloor(n, n * levels[kept[j]][2] - S, V)]]

\* levels[0]?.[0] ?? 0
BestPrice(levels) == IF Len(levels) = 0 THEN 0 ELSE levels[1][1]

venueMid_NoTruthiness(book) == Rat(BestPrice(book.bids) + BestPrice(book.asks), 2)

\* bestBid && bestAsk ? (bestBid + bestAsk) / 2 : 0
venueMid(book) ==
    IF BestPrice(book.bids) # 0 /\ BestPrice(book.asks) # 0
    THEN Rat(BestPrice(book.bids) + BestPrice(book.asks), 2)
    ELSE Rat(0, 1)

\* The block `if (spotBybitState) { ... if (mid > 0) { outliers.push(...) } }`
\* of one venue: the Bid records, then the Ask records.
venueOutliers(symbol, exchange, book, ts) ==
    IF book.present /\ venueMid(book)[1] > 0
    THEN computeZScoreOutliers(symbol, "Spot", exchange, "Bid", book.bids, venueMid(book), ts)
         \o computeZScoreOutliers(symbol, "Spot", exchange, "Ask", book.asks, venueMid(book), ts)
    ELSE <<>>

\* The outliers of one symbol: venue A's, then venue B's.
spotOutliers(symbol, books, ts) ==
    venueOutliers(symbol, "Bybit", books.bybit, ts)
    \o venueOutliers(symbol, "MEXC", books.mexc, ts)

\* spotLatest.<venue>.get(symbol) is undefined
NoBook == [present |-> FALSE, bids |-> <<>>, asks |-> <<>>]
Book(bids, asks) == [present |-> TRUE, bids |-> bids, asks |-> asks]

\* A side of n levels from the best price on, all of size 1 but level `at`.
Side(n, at, big, best, dir) ==
    [i \in 1..n |-> <<best + dir * (i - 1), IF i = at THEN big ELSE 1>>]

Bids(n, at) == Side(n, at, 7, 3999, -1)
Asks(n, at) == Side(n, at, 7, 4003, 1)

\* The books a venue may hold for the first symbol.
VenueBooks ==
    {NoBook,
     Book(Bids(27, 1), Asks(3, 0)),     \* one bid with z > 5, flat asks
     Book(<<>>, Asks(27, 1)),           \* no bid: mid is 0
     Book(Bids(1, 1), Asks(17, 1)),     \* a single bid, one ask with z = 4
     Book(Bids(20, 1), Asks(27, 2)),    \* one bid with 4 < z < 5, one ask with z > 5
     Book(Bids(3, 0), <<>>)}            \* flat bids, no ask: mid is 0

SpotBooks ==
    {<<[bybit |-> a, mexc |-> b], [bybit |-> c, mexc |-> NoBook]>> :
        a \in VenueBooks,
        b \in {NoBook, Book(Bids(27, 1), Asks(3, 0)), Book(Bids(20, 1), Asks(27, 2))},
        c \in {NoBook, Book(Bids(27, 1), Asks(3, 0))}}

\* What the symbol loop gets for each symbol from the books held.
spotInputs(books, ts) ==
    [i \in 1..Len(Symbols) |->
        [present |-> books[i].bybit.present \/ books[i].mexc.present,
         records |-> spotOutliers(Symbols[i], books[i], ts)]]

\* One run of the setInterval callback on the books held.
SpotTick(books) ==
    LET inputs == spotInputs(books, 1)
        st == tickLoop([trk |-> Tracker, h |-> History], inputs, 1)
    IN /\ SetTracker(st.trk, st.h)
       /\ cands' = KeysOf(Concat(inputs, 1))
       /\ last' = Call("tick", Concat(inputs, 1), NoTrade, 0, <<>>)
       /\ msg' = [kind |-> "spot", books |-> books]

SpotStep == steps < MaxSpotSteps /\ steps' = steps + 1

OutlierTick == \E books \in SpotBooks : SpotStep /\ SpotTick(books)

OutlierNext == OutlierTick

OutlierSpec == Init /\ [][OutlierNext]_vars

VenueBook(books, exchange) == IF exchange = "Bybit" THEN books.bybit ELSE books.mexc
SideLevels(book, side) == IF side = "Bid" THEN book.bids ELSE book.asks

\* The records the latest tick emitted for a symbol, venue and side.
Emitted(symbol, exchange, side) ==
    SelectSeq(last.records,
              LAMBDA r : r.symbol = symbol /\ r.exchange = exchange /\ r.side = side)

\* The levels of a side whose z-score, with sigma > 0, is at least threshold.
ZLevels(levels, threshold) ==
    LET n == Len(levels)
        S == SumSizes(levels)
        V == DevSquares(levels, S)
    IN IF V = 0 THEN {}
       ELSE {i \in 1..n : ZAtLeast(n, n * levels[i][2] - S, V, threshold)}

\* The records emitted for a side are its levels of z >= threshold, one each.
EmitsExactly(symbol, exchange, side, levels, threshold) ==
    LET out == Emitted(symbol, exchange, side)
        want == ZLevels(levels, threshold)
    IN /\ Len(out) = Cardinality(want)
       /\ {<<out[j].price, out[j].size>> : j \in 1..Len(out)} = {levels[i] : i \in want}

VenueSides == {"Bybit", "MEXC"} \X {"Bid", "Ask"}

\* C14: on every tick the outlier records emitted for a venue and side are
\* exactly the levels of that side whose z-score (population sigma > 0) is
\* >= 5, and as many records as such levels (for a venue whose book has both
\* sides, so that its mid is positive).
C14_EmitsAtZ5 ==
    msg.kind = "spot" =>
        \A i \in 1..Len(Symbols), vs \in VenueSides :
            LET book == VenueBook(msg.books[i], vs[1])
            IN (book.present /\ Len(book.bids) > 0 /\ Len(book.asks) > 0) =>
                   EmitsExactly(Symbols[i], vs[1], vs[2], SideLevels(book, vs[2]), 5)

\* A side for which no record may be emitted.
Degenerate(book, side) ==
    LET levels == SideLevels(book, side)
    IN \/ ~book.present
       \/ Len(levels) <= 1
       \/ \A i, j \in 1..Len(levels) : levels[i][2] = levels[j][2]
       \/ Len(book.bids) = 0
       \/ Len(book.asks) = 0

\* C15: no outlier record is emitted for a venue side that is empty, has a
\* single level or only equal sizes, or whose venue has no mid (a side of its
\* book is empty); the other venue and the other symbols get their records as
\* on any tick.
C15_DegenerateSides ==
    msg.kind = "spot" =>
        \A i \in 1..Len(Symbols), vs \in VenueSides :
            LET book == VenueBook(msg.books[i], vs[1])
            IN IF Degenerate(book, vs[2])
               THEN Emitted(Symbols[i], vs[1], vs[2]) = <<>>
               ELSE EmitsExactly(Symbols[i], vs[1], vs[2], SideLevels(book, vs[2]),
                                 OUTLIER_Z)

\* Venue A has no bid for the first symbol (its asks hold an outlying level);
\* venue B and the second symbol emit their records on the same tick.
C15_Witness ==
    /\ msg.kind = "spot"
    /\ msg.books[1].bybit = Book(<<>>, Asks(27, 1))
    /\ msg.books[1].mexc = Book(Bids(27, 1), Asks(3, 0))
    /\ msg.books[2].bybit = Book(Bids(27, 1), Asks(3, 0))
    /\ Len(last.records) = 2
    /\ Emitted(Symbols[1], "Bybit", "Ask") = <<>>
    /\ Len(Emitted(Symbols[1], "MEXC", "Bid")) = 1
    /\ Len(Emitted(Symbols[2], "Bybit", "Bid")) = 1

(***************************************************************************)
(* The perp path of the metrics tick: per-venue and merged metrics, large  *)
(* moves, the metrics and large-move stores and the broadcasts (PerpSpec). *)
(* Prices and sizes are integers, prices positive; mid and every bps       *)
(* distance are exact fractions.                                           *)
(***************************************************************************)
Z_SCORE_THRESHOLD == 4
baseMmNotional == 30000
largeMoveWindowBps == 200
largeMoveNotionalFloor == 2000
distanceBinsBps == <<5, 10, 25, 50, 100, 200>>

\* The indices of ws ordered by weight, largest first, ties in index order
\* (Array.prototype.sort with (a, b) => b.w - a.w is stable).
RECURSIVE OrderDescFrom(_, _)
OrderDescFrom(ws, left) ==
    IF left = {} THEN <<>>
    ELSE LET top == CHOOSE i \in left :
                       \A j \in left : ws[j] < ws[i] \/ (ws[j] = ws[i] /\ i <= j)
         IN <<top>> \o OrderDescFrom(ws, left \ {top})

OrderDesc(ws) == OrderDescFrom(ws, DOMAIN ws)

\* combined.set(price, (combined.get(price) ?? 0) + size) over a venue's levels
RECURSIVE mergeInto(_, _, _)
mergeInto(combined, levels, i) ==
    IF i > Len(levels) THEN combined
    ELSE mergeInto(MapSet(combined, levels[i][1],
                          (IF levels[i][1] \in DOMAIN combined
                           THEN combined[levels[i][1]] ELSE 0) + levels[i][2]),
                   levels, i + 1)

mergeLevels_NoSlice(bybit, mexc, side, depth) ==
    sortEntries(mergeInto(mergeInto(Empty, bybit, 1), mexc, 1), side)

\* mergeLevels(bybit, mexc, side, depth); an undefined venue is <<>>.
mergeLevels(bybit, mexc, side, depth) ==
    sortLevels(mergeInto(mergeInto(Empty, bybit, 1), mexc, 1), side, depth)

RECURSIVE Gcd(_, _)
Gcd(a, b) == IF b = 0 THEN a ELSE Gcd(b, a % b)

\* The fraction n/d in lowest terms (d > 0); n/0 is kept as it is.
Lowest(n, d) ==
    IF d = 0 \/ n = 0 THEN <<n, d>>
    ELSE <<n \div Gcd(Abs(n), d), d \div Gcd(Abs(n), d)>>

\* Math.abs(price - mid) / mid * 10000, for a positive mid
BpsFromMid(price, mid) == Lowest(Abs(price * mid[2] - mid[1]) * 10000, mid[1])

RECURSIVE RatSum(_)
RatSum(q) ==
    IF q = <<>> THEN <<0, 1>>
    ELSE LET rest == RatSum(Tail(q))
         IN Lowest(Head(q)[1] * rest[2] + rest[1] * Head(q)[2], Head(q)[2] * rest[2])

RECURSIVE RatMaxOf(_)
RatMaxOf(q) == IF q = <<>> THEN <<0, 1>> ELSE RatMax(Head(q), RatMaxOf(Tail(q)))

\* computeSideMetrics(side, levels, mid, baseMmNotional, bins, maxLargeLevels)
computeSideMetrics(levels, mid, base, maxLargeLevels) ==
    LET distances == [i \in 1..Len(levels) |-> BpsFromMid(levels[i][1], mid)]
        large == SelectSeq([i \in 1..Len(levels) |->
                               [price |-> levels[i][1], size |-> levels[i][2],
                                notional |-> levels[i][1] * levels[i][2],
                                bpsFromMid |-> distances[i]]],
                           LAMBDA l : l.notional >= base)
        ord == OrderDesc([i \in 1..Len(large) |-> large[i].notional])
        sorted == [i \in 1..Len(large) |-> large[ord[i]]]
        sum == RatSum(distances)
    IN [levels |-> levels,
        totalNotional |-> SumSeq([i \in 1..Len(levels) |-> levels[i][1] * levels[i][2]]),
        distances |-> distances,
        maxDistance |-> RatMaxOf(distances),
        avgDistance |-> IF Len(distances) > 0 THEN Lowest(sum[1], sum[2] * Len(distances))
                        ELSE <<0, 1>>,
        largeLevels |-> SubSeq(sorted, 1, Min(maxLargeLevels, Len(sorted)))]

\* The bucket a distance is counted in: the first i with distance <= bins[i],
\* else bins.length + 1.
BinOf(distance, bins) ==
    IF \E i \in 1..Len(bins) : RatLeq(distance, <<bins[i], 1>>)
    THEN CHOOSE i \in 1..Len(bins) :
            /\ RatLeq(distance, <<bins[i], 1>>)
            /\ \A j \in 1..(i - 1) : ~RatLeq(distance, <<bins[j], 1>>)
    ELSE Len(bins) + 1

countBins_DropsOverflow(distances, bins) ==
    [b \in 1..(Len(bins) + 1) |->
        IF b = Len(bins) + 1 THEN 0
        ELSE Cardinality({d \in 1..Len(distances) : BinOf(distances[d], bins) = b})]

\* countBins(distances, bins)
countBins(distances, bins) ==
    [b \in 1..(Len(bins) + 1) |->
        Cardinality({d \in 1..Len(distances) : BinOf(distances[d], bins) = b})]

\* countOutliers(levels)
countOutliers(levels) ==
    IF Len(levels) = 0 THEN 0
    ELSE LET n == Len(levels)
             S == SumSizes(levels)
             V == DevSquares(levels, S)
         IN IF V = 0 THEN 0
            ELSE Cardinality({i \in 1..n :
                                 ZAtLeast(n, n * levels[i][2] - S, V, Z_SCORE_THRESHOLD)})

\* The value computeMetrics returns for an empty side.
Null == [null |-> TRUE]

\* The MetricsPoint computeMetrics builds, past its empty-side check.
MetricsOf(symbol, bids, asks, base, bins, moveStats, ts) ==
    LET bestBid == BestPrice(bids)
        bestAsk == BestPrice(asks)
        mid == Rat(bestBid + bestAsk, 2)
        bidMetrics == computeSideMetrics(bids, mid, base, 5)
        askMetrics == computeSideMetrics(asks, mid, base, 5)
    IN [null |-> FALSE, ts |-> ts, symbol |-> symbol, mid |-> mid,
        bestBid |-> bestBid, bestAsk |-> bestAsk, depth |-> Len(bids),
        baseMmNotional |-> base,
        totalNotionalBid |-> bidMetrics.totalNotional,
        totalNotionalAsk |-> askMetrics.totalNotional,
        distanceBinsBps |-> bins,
        distanceBinCountsBid |-> countBins(bidMetrics.distances, bins),
        distanceBinCountsAsk |-> countBins(askMetrics.distances, bins),
        maxDistanceBpsBid |-> bidMetrics.maxDistance,
        maxDistanceBpsAsk |-> askMetrics.maxDistance,
        avgDistanceBpsBid |-> bidMetrics.avgDistance,
        avgDistanceBpsAsk |-> askMetrics.avgDistance,
        outlierCountBid |-> countOutliers(bids),
        outlierCountAsk |-> countOutliers(asks),
        largeLevelsBid |-> bidMetrics.largeLevels,
        largeLevelsAsk |-> askMetrics.largeLevels,
        moveStats |-> moveStats]

computeMetrics_NoEmptyCheck(symbol, bids, asks, base, bins, moveStats, ts) ==
    MetricsOf(symbol, bids, asks, base, bins, moveStats, ts)

\* computeMetrics(symbol, bids, asks, baseMmNotional, bins, moveStats); ts is
\* the Date.now() of the call.
computeMetrics(symbol, bids, asks, base, bins, moveStats, ts) ==
    IF Len(bids) = 0 \/ Len(asks) = 0 THEN Null
    ELSE MetricsOf(symbol, bids, asks, base, bins, moveStats, ts)

\* mergeMoveStats(...stats); an undefined argument is <<>>, a MoveStats m is <<m>>.
RECURSIVE mergeMoveStats(_)
mergeMoveStats(stats) ==
    IF stats = <<>> THEN [bids |-> emptySideStats, asks |-> emptySideStats]
    ELSE LET rest == mergeMoveStats(Tail(stats))
             AddSide(a, b) == [adds |-> a.adds + b.adds, changes |-> a.changes + b.changes,
                               removals |-> a.removals + b.removals,
                               sizeDelta |-> a.sizeDelta + b.sizeDelta]
         IN IF Head(stats) = <<>> THEN rest
            ELSE [bids |-> AddSide(Head(stats)[1].bids, rest.bids),
                  asks |-> AddSide(Head(stats)[1].asks, rest.asks)]

\* toExchangeMetrics(point)
toExchangeMetrics(point) ==
    [mid |-> point.mid, bestBid |-> point.bestBid, bestAsk |-> point.bestAsk,
     depth |-> point.depth, baseMmNotional |-> point.baseMmNotional,
     totalNotionalBid |-> point.totalNotionalBid, totalNotionalAsk |-> point.totalNotionalAsk,
     distanceBinsBps |-> point.distanceBinsBps,
     distanceBinCountsBid |-> point.distanceBinCountsBid,
     distanceBinCountsAsk |-> point.distanceBinCountsAsk,
     maxDistanceBpsBid |-> point.maxDistanceBpsBid, maxDistanceBpsAsk |-> point.maxDistanceBpsAsk,
     avgDistanceBpsBid |-> point.avgDistanceBpsBid, avgDistanceBpsAsk |-> point.avgDistanceBpsAsk,
     outlierCountBid |-> point.outlierCountBid, outlierCountAsk |-> point.outlierCountAsk]

\* prevMap.get(price) ?? 0
PrevSizeAt(prev, price) ==
    IF \E i \in 1..Len(prev) : prev[i][1] = price
    THEN prev[CHOOSE i \in 1..Len(prev) :
                 prev[i][1] = price /\ \A j \in (i + 1)..Len(prev) : prev[j][1] # price][2]
    ELSE 0

\* next.filter(([price]) => Math.abs(price - mid) / mid * 10000 <= windowBps).length
WindowLevels(next, mid, windowBps) ==
    Cardinality({i \in 1..Len(next) : RatLeq(BpsFromMid(next[i][1], mid), <<windowBps, 1>>)})

\* Math.max(baseMmNotional / Math.max(1, windowLevels), notionalFloor)
MinNotional(base, windowLevels, notionalFloor) ==
    RatMax(Rat(base, Max(1, windowLevels)), <<notionalFloor, 1>>)

compareSide_FloorOnly(prev, next, mid, base, windowBps, notionalFloor) ==
    LET all == [i \in 1..Len(next) |->
                   LET prevSize == PrevSizeAt(prev, next[i][1])
                       deltaSize == next[i][2] - prevSize
                   IN [price |-> next[i][1], prevSize |-> prevSize, nextSize |-> next[i][2],
                       deltaSize |-> deltaSize,
                       notionalDelta |-> Abs(deltaSize) * next[i][1],
                       bpsFromMid |-> BpsFromMid(next[i][1], mid)]]
        moves == SelectSeq(all, LAMBDA m :
                     m.deltaSize # 0 /\ m.notionalDelta >= notionalFloor)
        ord == OrderDesc([i \in 1..Len(moves) |-> moves[i].notionalDelta])
    IN [i \in 1..Len(moves) |-> moves[ord[i]]]

\* compareSide(prev, next, mid, baseMmNotional, windowBps, notionalFloor)
compareSide(prev, next, mid, base, windowBps, notionalFloor) ==
    LET minNotional == MinNotional(base, WindowLevels(next, mid, windowBps), notionalFloor)
        all == [i \in 1..Len(next) |->
                   LET prevSize == PrevSizeAt(prev, next[i][1])
                       deltaSize == next[i][2] - prevSize
                   IN [price |-> next[i][1], prevSize |-> prevSize, nextSize |-> next[i][2],
                       deltaSize |-> deltaSize,
                       notionalDelta |-> Abs(deltaSize) * next[i][1],
                       bpsFromMid |-> BpsFromMid(next[i][1], mid)]]
        moves == SelectSeq(all, LAMBDA m :
                     m.deltaSize # 0 /\ RatLeq(minNotional, <<m.notionalDelta, 1>>))
        ord == OrderDesc([i \in 1..Len(moves) |-> moves[i].notionalDelta])
    IN [i \in 1..Len(moves) |-> moves[ord[i]]]

\* computeLargeMoves(prev, next, mid, baseMmNotional, windowBps, notionalFloor);
\* an undefined prev is <<>>, a snapshot s is <<s>>.
computeLargeMoves(prev, next, mid, base, windowBps, notionalFloor) ==
    [bids |-> compareSide(IF prev = <<>> THEN <<>> ELSE prev[1].bids, next.bids,
                          mid, base, windowBps, notionalFloor),
     asks |-> compareSide(IF prev = <<>> THEN <<>> ELSE prev[1].asks, next.asks,
                          mid, base, windowBps, notionalFloor)]

(***************************************************************************)
(* PerpSpec: the perp adapters deliver books of one symbol through         *)
(* onUpdate and the metrics tick runs its perp path on them.  No spot book *)
(* is present, so the tick's spot block is skipped.                        *)
(***************************************************************************)
MaxPerpSteps == 4
PerpDepth == 3  \* config.depth in PerpSpec: no delivered side is longer

\* What a perp adapter's tracker counted while handling one message.
Moved(bidAdds, askAdds, bidSize, askSize) ==
    [bids |-> [adds |-> bidAdds, changes |-> 0, removals |-> 0, sizeDelta |-> bidSize],
     asks |-> [adds |-> askAdds, changes |-> 0, removals |-> 0, sizeDelta |-> askSize]]

\* The onUpdate calls of the perp adapters: the venue, the sorted sides it
\* delivers and what its tracker counted for the message.
PerpUpdates ==
    {[venue |-> "bybit", bids |-> <<<<99, 50>>>>, asks |-> <<<<101, 50>>>>,
      moved |-> Moved(1, 1, 50, 50)],
     [venue |-> "bybit", bids |-> <<<<99, 50>>>>, asks |-> <<<<101, 200>>>>,
      moved |-> Moved(0, 0, 0, 150)],
     [venue |-> "bybit", bids |-> <<<<99, 50>>>>, asks |-> <<<<101, 500>>>>,
      moved |-> Moved(0, 0, 0, 450)],
     [venue |-> "bybit", bids |-> <<<<95, 50>>>>, asks |-> <<<<105, 500>>>>,
      moved |-> Moved(1, 1, 50, 500)],
     [venue |-> "bybit", bids |-> <<<<999, 2>>, <<990, 1>>>>, asks |-> <<<<1001, 5>>>>,
      moved |-> Moved(2, 1, 3, 5)],
     [venue |-> "mexc", bids |-> <<<<102, 50>>>>, asks |-> <<>>,
      moved |-> Moved(1, 0, 50, 0)],
     [venue |-> "mexc", bids |-> <<<<99, 400>>>>, asks |-> <<<<101, 50>>>>,
      moved |-> Moved(1, 1, 400, 50)],
     [venue |-> "mexc",
      bids |-> <<<<999, 1>>, <<995, 1>>, <<900, 4>>>>,
      asks |-> <<<<1001, 20>>, <<1002, 1>>, <<1030, 3>>>>,
      moved |-> Moved(3, 3, 6, 24)]}

\* onUpdate of a perp adapter: perpLatest[venue].set(symbol, {bids, asks,
\* tracker}); the tracker is the adapter's own, with what it counted since
\* the last snapshotAndReset.
onUpdate(p, u) ==
    [p EXCEPT !.latest[u.venue] = <<[bids |-> u.bids, asks |-> u.asks]>>,
              !.tracker[u.venue].stats = mergeMoveStats(<<<<@>>, <<u.moved>>>>)]

\* The moveStats handed to computeMetrics for a venue: bybitMoves ?? mergeMoveStats()
MovesOf(p, v) == IF p.latest[v] = <<>> THEN <<>> ELSE <<snapshotAndReset(p.tracker[v]).snapshot>>

\* A venue's side of perpLatest, [] when the venue has no state.
VenueSide(p, v, side) == IF p.latest[v] = <<>> THEN <<>> ELSE p.latest[v][1][side]

\* exchangeMetrics: for each venue with a state and a non-null MetricsPoint
ExchangeMetricsOf(p, symbol, ts) ==
    LET point(v) == computeMetrics(symbol, VenueSide(p, v, "bids"), VenueSide(p, v, "asks"),
                                   baseMmNotional, distanceBinsBps,
                                   mergeMoveStats(<<MovesOf(p, v)>>), ts)
        have == {v \in Venues : p.latest[v] # <<>> /\ ~point(v).null}
    IN [v \in have |-> toExchangeMetrics(point(v))]

\* The merged perp book of the tick.
MergedPerp(p) ==
    [bids |-> mergeLevels(VenueSide(p, "bybit", "bids"), VenueSide(p, "mexc", "bids"),
                          "bids", PerpDepth),
     asks |-> mergeLevels(VenueSide(p, "bybit", "asks"), VenueSide(p, "mexc", "asks"),
                          "asks", PerpDepth)]

\* The aggregated MetricsPoint of the tick, before exchanges and large moves
\* are attached; Null when a merged side is empty.
MergedMetrics(p, symbol, ts) ==
    computeMetrics(symbol, MergedPerp(p).bids, MergedPerp(p).asks, baseMmNotional,
                   distanceBinsBps,
                   mergeMoveStats(<<MovesOf(p, "bybit"), MovesOf(p, "mexc")>>), ts)

\* One LargeMoveStore row.
MoveRow(ts, symbol, side, move) ==
    [ts |-> ts, symbol |-> symbol, side |-> side, price |-> move.price,
     deltaSize |-> move.deltaSize, notionalDelta |-> move.notionalDelta,
     bpsFromMid |-> move.bpsFromMid]

\* The perp path of the metrics tick for one symbol, at Date.now() = ts.
perpTick(p, symbol, ts) ==
    IF p.latest["bybit"] = <<>> /\ p.latest["mexc"] = <<>> THEN p
    ELSE LET merged == MergedPerp(p)
             metrics == MergedMetrics(p, symbol, ts)
             exchanges == ExchangeMetricsOf(p, symbol, ts)
             reset == [p EXCEPT !.tracker = [v \in Venues |->
                          IF p.latest[v] = <<>> THEN p.tracker[v]
                          ELSE snapshotAndReset(p.tracker[v]).tracker]]
         IN IF metrics.null THEN reset
            ELSE LET moves == computeLargeMoves(p.lastSnapshot, merged, metrics.mid,
                                  baseMmNotional, largeMoveWindowBps, largeMoveNotionalFloor)
                     point == [metrics EXCEPT !.ts = ts] @@
                              [exchanges |-> exchanges,
                               largeMovesBid |-> SubSeq(moves.bids, 1, Min(8, Len(moves.bids))),
                               largeMovesAsk |-> SubSeq(moves.asks, 1, Min(8, Len(moves.asks)))]
                     rows == [i \in 1..Len(moves.bids) |->
                                 MoveRow(ts, symbol, "Bid", moves.bids[i])] \o
                             [i \in 1..Len(moves.asks) |->
                                 MoveRow(ts, symbol, "Ask", moves.asks[i])]
                 IN [reset EXCEPT
                        !.largeMoves = @ \o rows,
                        !.store = Append(@, point),
                        !.lastSnapshot = <<merged>>,
                        !.sent = @ \o <<[type |-> "metrics", data |-> point],
                                        [type |-> "perpBook", symbol |-> symbol,
                                         mid |-> point.mid, bids |-> merged.bids,
                                         asks |-> merged.asks, depth |-> Len(merged.bids),
                                         sources |-> p.latest]>>]

PerpStep == steps < MaxPerpSteps /\ steps' = steps + 1

\* The merged book (mergedBids, mergedAsks) of the most recent tick that
\* reached the merge, <<>> when there was none: a history of the run, kept in
\* msg across the updates that follow the tick.
TickBook == IF "tickBook" \in DOMAIN msg THEN msg.tickBook ELSE <<>>

PerpUpdate ==
    \E u \in PerpUpdates :
        /\ PerpStep
        /\ perp' = onUpdate(perp, u)
        /\ msg' = [kind |-> "perpUpdate", update |-> u, tickBook |-> TickBook]
        /\ last' = [op |-> "onUpdate", venue |-> u.venue]
        /\ UNCHANGED <<active, order, store, hist, seenTrades, storeHist, storeTrades,
                       cands, state, stores, proc>>

PerpTick ==
    /\ PerpStep
    /\ perp' = perpTick(perp, Symbols[1], steps')
    /\ msg' = [kind |-> "perpTick",
               tickBook |-> IF perp.latest["bybit"] = <<>> /\ perp.latest["mexc"] = <<>>
                            THEN TickBook ELSE <<MergedPerp(perp)>>]
    /\ last' = [op |-> "metricsTick", ts |-> steps']
    /\ UNCHANGED <<active, order, store, hist, seenTrades, storeHist, storeTrades,
                   cands, state, stores, proc>>

PerpNext == PerpUpdate \/ PerpTick

PerpSpec == Init /\ [][PerpNext]_vars

\* The prices of a venue's delivered levels, and the size it has at a price
\* (0 when it has none).
PricesOf(levels) == {levels[i][1] : i \in 1..Len(levels)}
VenueSizeAt(levels, price) ==
    IF price \in PricesOf(levels)
    THEN levels[CHOOSE i \in 1..Len(levels) : levels[i][1] = price][2]
    ELSE 0

\* price a is nearer the top of the side than price b.
Nearer(side, a, b) == IF side = "bids" THEN a > b ELSE a < b

\* merged is the merge of the two venues' levels of a side, as C29 states it.
MergeOf(merged, bybit, mexc, side, depth) ==
    LET union == PricesOf(bybit) \cup PricesOf(mexc)
    IN /\ IF side = "bids" THEN StrictlyDecreasing(merged) ELSE StrictlyIncreasing(merged)
       /\ Len(merged) = Min(depth, Cardinality(union))
       /\ PricesOf(merged) \subseteq union
       /\ \A q \in union \ PricesOf(merged) : \A r \in PricesOf(merged) : Nearer(side, r, q)
       /\ \A i \in 1..Len(merged) :
              merged[i][2] = VenueSizeAt(bybit, merged[i][1]) + VenueSizeAt(mexc, merged[i][1])

\* C29: the merged book a tick keeps and broadcasts has, per side, distinct
\* sorted prices (bids descending, asks ascending), at most the configured
\* depth of them, those nearest the top among the prices of the two venues'
\* delivered levels, each with the sum of the two venues' sizes at that price
\* (a venue without a book or without the price adds nothing).
C29_MergedBook ==
    [][Len(perp'.store) = Len(perp.store) + 1 =>
          \A side \in {"bids", "asks"} :
              MergeOf(perp'.lastSnapshot[1][side], VenueSide(perp, "bybit", side),
                      VenueSide(perp, "mexc", side), side, PerpDepth)]_vars

\* A tick merged bids 999 x 2, 990 x 1 of one venue with 999 x 1, 995 x 1,
\* 900 x 4 of the other: 999 has the sum 3 and 900 is cut off.
C29_Witness ==
    /\ perp.lastSnapshot # <<>>
    /\ perp.latest["bybit"] # <<>>
    /\ perp.latest["mexc"] # <<>>
    /\ LET bids == perp.lastSnapshot[1].bids
           union == PricesOf(VenueSide(perp, "bybit", "bids"))
                        \cup PricesOf(VenueSide(perp, "mexc", "bids"))
       IN /\ MergeOf(bids, VenueSide(perp, "bybit", "bids"), VenueSide(perp, "mexc", "bids"),
                     "bids", PerpDepth)
          /\ \E i \in 1..Len(bids) :
                 /\ bids[i][1] \in PricesOf(VenueSide(perp, "bybit", "bids"))
                 /\ bids[i][1] \in PricesOf(VenueSide(perp, "mexc", "bids"))
          /\ Cardinality(union) > Len(bids)
          /\ bids = <<<<999, 3>>, <<995, 1>>, <<990, 1>>>>

\* Every MetricsPoint produced so far: the aggregated points appended to the
\* metrics store and the per-venue metrics attached to them.
MetricsProduced ==
    {perp.store[i] : i \in 1..Len(perp.store)} \cup
    UNION {{perp.store[i].exchanges[v] : v \in DOMAIN perp.store[i].exchanges} :
              i \in 1..Len(perp.store)}

MidBetweenBest(point) ==
    /\ RatEq(point.mid, <<point.bestBid + point.bestAsk, 2>>)
    /\ RatLeq(<<point.bestBid, 1>>, point.mid)
    /\ RatLeq(point.mid, <<point.bestAsk, 1>>)

\* C16: every MetricsPoint produced, per venue and aggregated over the merged
\* perp book, has mid = (bestBid + bestAsk)/2 and bestBid <= mid <= bestAsk,
\* whatever the per-venue books hold.
C16_MidBetweenBest == \A point \in MetricsProduced : MidBetweenBest(point)

\* Whether a price lies within bound bps of the mid of bestBid and bestAsk:
\* |price - mid| / mid * 10^4 <= bound, with mid = (bestBid + bestAsk)/2.
DistanceWithin(price, bestBid, bestAsk, bound) ==
    Abs(2 * price - (bestBid + bestAsk)) * 10000 <= bound * (bestBid + bestAsk)

\* The bucket b a price belongs to: the first whose bound is >= its distance,
\* or the overflow bucket |bins| + 1.
BucketIs(b, price, bestBid, bestAsk, bins) ==
    IF b <= Len(bins)
    THEN /\ DistanceWithin(price, bestBid, bestAsk, bins[b])
         /\ \A j \in 1..(b - 1) : ~DistanceWithin(price, bestBid, bestAsk, bins[j])
    ELSE \A j \in 1..Len(bins) : ~DistanceWithin(price, bestBid, bestAsk, bins[j])

BinCountsOk(counts, levels, point) ==
    /\ Len(counts) = Len(distanceBinsBps) + 1
    /\ SumSeq(counts) = Len(levels)
    /\ \A b \in 1..(Len(distanceBinsBps) + 1) :
          counts[b] = Cardinality({i \in 1..Len(levels) :
                          BucketIs(b, levels[i][1], point.bestBid, point.bestAsk,
                                   distanceBinsBps)})
    /\ Len(levels) = 1 =>
          \E b \in 1..Len(counts) : counts = [c \in 1..Len(counts) |-> IF c = b THEN 1 ELSE 0]

PointBinsOk(point, bids, asks) ==
    /\ BinCountsOk(point.distanceBinCountsBid, bids, point)
    /\ BinCountsOk(point.distanceBinCountsAsk, asks, point)

\* The aggregated MetricsPoint a step appended to the metrics store.
Produced == perp'.store[Len(perp'.store)]

\* C17: for every MetricsPoint a tick produces, aggregated or per venue, and
\* each side, distanceBinCounts has |distanceBinsBps| + 1 entries that sum to
\* the number of levels of that side; each level is counted once, in the first
\* bucket whose bound is >= its bps distance or else in the overflow bucket,
\* and a single-level side gives exactly one increment.
C17_BinCounts ==
    [][Len(perp'.store) = Len(perp.store) + 1 =>
          /\ PointBinsOk(Produced, MergedPerp(perp).bids, MergedPerp(perp).asks)
          /\ \A v \in DOMAIN Produced.exchanges :
                PointBinsOk(Produced.exchanges[v], VenueSide(perp, v, "bids"),
                            VenueSide(perp, v, "asks"))]_vars

\* A point was produced from a three-level side whose levels fall in the
\* second, the fourth and the overflow bucket.
C17_Witness ==
    \E i \in 1..Len(perp.store) :
        /\ perp.store[i].depth = 3
        /\ perp.store[i].distanceBinCountsBid = <<0, 1, 0, 1, 0, 0, 1>>
        /\ "mexc" \in DOMAIN perp.store[i].exchanges

\* The merged perp book has an empty side: no venue holds a level on it.
EmptyMergedSide(p) ==
    \E side \in {"bids", "asks"} : \A v \in Venues : VenueSide(p, v, side) = <<>>

\* C18: a tick on which the merged perp book of the symbol has an empty bid
\* side or an empty ask side produces no MetricsPoint: nothing is appended to
\* the metrics store or the large-move store, and no metrics or perpBook
\* message is broadcast.
C18_EmptySideProducesNothing ==
    [][(msg'.kind = "perpTick" /\ EmptyMergedSide(perp)) =>
          /\ perp'.store = perp.store
          /\ perp'.largeMoves = perp.largeMoves
          /\ perp'.sent = perp.sent]_vars

\* A tick ran on a venue book with bids and no asks.
C18_Witness ==
    /\ msg.kind = "perpTick"
    /\ perp.latest["mexc"] # <<>>
    /\ perp.latest["bybit"] = <<>>
    /\ VenueSide(perp, "mexc", "bids") # <<>>
    /\ VenueSide(perp, "mexc", "asks") = <<>>

\* windowLevels: the levels of a side of the next book within
\* largeMoveWindowBps of the mid of bestBid and bestAsk.
WindowCount(next, bestBid, bestAsk) ==
    Cardinality({i \in 1..Len(next) :
                    DistanceWithin(next[i][1], bestBid, bestAsk, largeMoveWindowBps)})

\* The previous merged book's side, [] before the first snapshot.
PrevSide(p, side) == IF p.lastSnapshot = <<>> THEN <<>> ELSE p.lastSnapshot[1][side]

\* |nextSize - prevSize| * price of level i of next.
NotionalDelta(prev, next, i) == Abs(next[i][2] - PrevSizeAt(prev, next[i][1])) * next[i][1]

\* notionalDelta >= max(baseMmNotional / divisor, largeMoveNotionalFloor); no
\* notionalDelta reaches baseMmNotional / 0.
ReachesThreshold(notionalDelta, divisor) ==
    /\ divisor > 0
    /\ notionalDelta * divisor >= baseMmNotional
    /\ notionalDelta >= largeMoveNotionalFloor

\* The moves reported for a side are exactly its levels whose size changed and
\* whose notionalDelta reaches the threshold for the given divisor, each with
\* its deltaSize and bpsFromMid.
MovesAre(moves, prev, next, bestBid, bestAsk, divisor) ==
    LET qualifying == {i \in 1..Len(next) :
                          /\ next[i][2] # PrevSizeAt(prev, next[i][1])
                          /\ ReachesThreshold(NotionalDelta(prev, next, i), divisor)}
    IN /\ Len(moves) = Cardinality(qualifying)
       /\ {moves[k].price : k \in 1..Len(moves)} = {next[i][1] : i \in qualifying}
       /\ \A k \in 1..Len(moves) : \E i \in qualifying :
             /\ moves[k].price = next[i][1]
             /\ moves[k].deltaSize = next[i][2] - PrevSizeAt(prev, next[i][1])
             /\ moves[k].notionalDelta = NotionalDelta(prev, next, i)
             /\ RatEq(moves[k].bpsFromMid,
                      <<Abs(2 * next[i][1] - (bestBid + bestAsk)) * 10000, bestBid + bestAsk>>)

MaxStoreSteps == 3
retentionMs == 2

\* this.data.shift() while the first row is older than the cutoff
RECURSIVE shiftOld(_, _)
shiftOld(data, cutoff) ==
    IF Len(data) > 0 /\ data[1] < cutoff THEN shiftOld(Tail(data), cutoff) ELSE data

\* prune(): cutoff = Date.now() - retentionMs; shift the old rows off the
\* front of the cache; DELETE FROM <table> WHERE ts < cutoff.
prune(st, now) ==
    [data |-> shiftOld(st.data, now - retentionMs),
     db |-> SelectSeq(st.db, LAMBDA ts : ts >= now - retentionMs)]

\* this.insertStmt.run(row)
insert(st, ts) == [st EXCEPT !.db = Append(@, ts)]

\* this.data.push(row)
push(st, ts) == [st EXCEPT !.data = Append(@, ts)]

\* MetricsStore, LiquidationStore, OiFundingStore: append pushes, prunes and
\* then inserts.
appendPruneInsert(st, ts, now) == insert(prune(push(st, ts), now), ts)

\* TradeStore, OutlierSpanStore: append pushes, inserts and then prunes.
appendInsertPrune(st, ts, now) == prune(insert(push(st, ts), ts), now)

\* OutlierStore.appendAll: nothing for an empty batch; else push and insert
\* every record, then prune.
RECURSIVE pushAll(_, _)
pushAll(st, records) ==
    IF records = <<>> THEN st
    ELSE pushAll(insert(push(st, Head(records)), Head(records)), Tail(records))

appendAll(st, records, now) ==
    IF Len(records) = 0 THEN st ELSE prune(pushAll(st, records), now)

\* append of the store named n, for a row of timestamp ts.
append(n, st, ts, now) ==
    IF n \in {"metrics", "liquidations", "oi_funding"} THEN appendPruneInsert(st, ts, now)
    ELSE IF n = "outliers" THEN appendAll(st, <<ts>>, now)
    ELSE appendInsertPrune(st, ts, now)

\* getHistory: prune, then read.
getHistory(st, now) == prune(st, now)

\* The timestamps a row can carry at time now: the present, or up to
\* retentionMs + 1 before it (an event stamped by the venue, delivered late).
RowTimes(now) == {t \in (now - retentionMs - 1)..now : t >= 0}

StoreStep == steps < MaxStoreSteps /\ steps' = steps + 1

OtherVars == <<active, order, store, hist, seenTrades, storeHist, storeTrades, cands, state,
               msg, perp, proc>>

\* Time passes between calls: the call runs at now + dt.
StoreAppend ==
    \E n \in StoreNames, dt \in 0..2 : \E ts \in RowTimes(stores.now + dt) :
        /\ StoreStep
        /\ stores' = [now |-> stores.now + dt,
                      s |-> [stores.s EXCEPT ![n] = append(n, @, ts, stores.now + dt)]]
        /\ last' = [op |-> "append", store |-> n, ts |-> ts]
        /\ UNCHANGED OtherVars

StoreAppendAll ==
    \E dt \in 0..2 : \E records \in {<<>>} \cup
            {<<a, b>> : a \in RowTimes(stores.now + dt), b \in RowTimes(stores.now + dt)} :
        /\ StoreStep
        /\ stores' = [now |-> stores.now + dt,
                      s |-> [stores.s EXCEPT !["outliers"] =
                                appendAll(@, records, stores.now + dt)]]
        /\ last' = [op |-> "appendAll", store |-> "outliers", records |-> records]
        /\ UNCHANGED OtherVars

StoreGetHistory ==
    \E n \in StoreNames, dt \in 0..2 :
        /\ StoreStep
        /\ stores' = [now |-> stores.now + dt,
                      s |-> [stores.s EXCEPT ![n] = getHistory(@, stores.now + dt)]]
        /\ last' = [op |-> "getHistory", store |-> n]
        /\ UNCHANGED OtherVars

StoreNext == StoreAppend \/ StoreAppendAll \/ StoreGetHistory

StoreSpec == Init /\ [][StoreNext]_vars

\* No row of the cache or of the table is older than now - retentionMs.
Retained(st, now) ==
    /\ \A i \in 1..Len(st.data) : st.data[i] >= now - retentionMs
    /\ \A i \in 1..Len(st.db) : st.db[i] >= now - retentionMs

\* C20: after any append or getHistory of a store, run at time now, neither
\* its in-memory cache nor its DB table holds a row with ts (end_ts for
\* spans) < now - retentionMs, whatever the timestamps appended.
C20_Retention ==
    last.op \in {"append", "appendAll", "getHistory"} =>
        Retained(stores.s[last.store], stores.now)

(***************************************************************************)
(* HistorySpec: OutlierStore and OutlierSpanStore with their rows' filter  *)
(* fields.  A row is [ts, symbol, market, exchange] (ts is endTs for a     *)
(* span); `stores` holds the two caches and tables, and the rows appended. *)
(***************************************************************************)
MaxHistSteps == 3

\* prune() on rows: the old rows at the front of the cache, the old rows of
\* the table.
RECURSIVE shiftOldRows(_, _)
shiftOldRows(data, cutoff) ==
    IF Len(data) > 0 /\ data[1].ts < cutoff THEN shiftOldRows(Tail(data), cutoff) ELSE data

pruneRows(st, now) ==
    [data |-> shiftOldRows(st.data, now - retentionMs),
     db |-> SelectSeq(st.db, LAMBDA row : row.ts >= now - retentionMs)]

\* OutlierSpanStore.append; OutlierStore.appendAll of a one-record batch.
appendRow(st, row, now) == pruneRows([data |-> Append(st.data, row), db |-> Append(st.db, row)], now)

\* The filters of getHistory; an absent (or empty) filter is "".
filterRows(data, symbol, market, exchange) ==
    SelectSeq(data, LAMBDA item :
        /\ symbol # "" => item.symbol = symbol
        /\ market # "" => item.market = market
        /\ exchange # "" => toLowerCase(item.exchange) = toLowerCase(exchange))

\* getHistory(limit, symbol, market, exchange): the store it leaves and the
\* rows it returns, filtered.slice(Math.max(0, filtered.length - limit)).
historyRows(st, limit, symbol, market, exchange, now) ==
    LET filtered == filterRows(pruneRows(st, now).data, symbol, market, exchange)
    IN [st |-> pruneRows(st, now),
        rows |-> SubSeq(filtered, Max(0, Len(filtered) - limit) + 1, Len(filtered))]

HistStores == {"outliers", "outlier_spans"}

\* The rows appended: fresh, or stamped retentionMs + 1 before the call.
HistRows(now) ==
    {[ts |-> t, symbol |-> r[1], market |-> r[2], exchange |-> r[3]] :
        t \in {now} \cup {x \in {now - retentionMs - 1} : x >= 0},
        r \in {<<"BTCUSDT", "Spot", "Bybit">>, <<"BTCUSDT", "Spot", "MEXC">>,
               <<"ETHUSDT", "Perp", "bybit">>}}

HistFilters ==
    {<<"", "", "">>, <<"BTCUSDT", "", "">>, <<"", "Spot", "BYBIT">>, <<"", "", "bybit">>,
     <<"ETHUSDT", "Perp", "">>}

HistLimits == {0, 1, 3}

\* Time passes between calls: none, or more than the retention.
HistDelays == {0, retentionMs + 1}

HistStep == steps < MaxHistSteps /\ steps' = steps + 1

HistAppend ==
    \E n \in HistStores, dt \in HistDelays : \E row \in HistRows(stores.now + dt) :
        /\ HistStep
        /\ stores' = [now |-> stores.now + dt,
                      s |-> [stores.s EXCEPT ![n] = appendRow(@, row, stores.now + dt)]]
        /\ last' = [op |-> "append", store |-> n, row |-> row]
        /\ msg' = [kind |-> "rows",
                   appended |-> (IF msg.kind = "rows" THEN msg.appended ELSE {}) \cup {row}]
        /\ UNCHANGED <<active, order, store, hist, seenTrades, storeHist, storeTrades, cands,
                       state, perp, proc>>

HistGet ==
    \E n \in HistStores, dt \in HistDelays, limit \in HistLimits, f \in HistFilters :
        LET got == historyRows(stores.s[n], limit, f[1], f[2], f[3], stores.now + dt)
        IN /\ HistStep
           /\ stores' = [now |-> stores.now + dt, s |-> [stores.s EXCEPT ![n] = got.st]]
           /\ last' = [op |-> "getHistory", store |-> n, limit |-> limit, symbol |-> f[1],
                       market |-> f[2], exchange |-> f[3], cache |-> stores.s[n].data,
                       rows |-> got.rows]
           /\ UNCHANGED <<active, order, store, hist, seenTrades, storeHist, storeTrades,
                          cands, state, perp, msg, proc>>

HistNext == HistAppend \/ HistGet

HistorySpec == Init /\ [][HistNext]_vars

\* The unexpired rows of a cache that match the filters, in cache order.
UnexpiredMatching(cache, symbol, market, exchange, now) ==
    SelectSeq(cache, LAMBDA row :
        /\ row.ts >= now - retentionMs
        /\ symbol = "" \/ row.symbol = symbol
        /\ market = "" \/ row.market = market
        /\ exchange = "" \/ toLowerCase(row.exchange) = toLowerCase(exchange))

LastOf(rows, k) == SubSeq(rows, Len(rows) - k + 1, Len(rows))

\* C21: getHistory(limit, filters) returns, in insertion order, the last
\* min(limit, n) of the n unexpired cached rows that match the filters
\* (symbol and market exactly, exchange without regard to case), hence all of
\* them when n <= limit, and never a row that was not appended.
C21_GetHistory ==
    last.op = "getHistory" =>
        LET want == UnexpiredMatching(last.cache, last.symbol, last.market, last.exchange,
                                      stores.now)
        IN /\ last.rows = LastOf(want, Min(last.limit, Len(want)))
           /\ \A i \in 1..Len(last.rows) : last.rows[i] \in msg.appended

(***************************************************************************)
(* WriteSpec: the paths that append to a store, with an insert that can    *)
(* fail (insertStmt.run throws).                                           *)
(***************************************************************************)
MaxWriteSteps == 3

\* append of store n when insertStmt.run throws: what ran before the throw.
appendThrows(n, st, ts, now) ==
    IF n \in {"metrics", "liquidations", "oi_funding"} THEN prune(push(st, ts), now)
    ELSE push(st, ts)

\* The appending paths and the store each appends to.  The websocket handlers
\* and the metrics tick call append with no try around it; the REST polls
\* call it inside try { ... } catch { return; }.
WritePaths ==
    {[path |-> "metricsTick", store |-> "metrics", caught |-> FALSE],
     [path |-> "tradeFeed", store |-> "trades", caught |-> FALSE],
     [path |-> "tradePoll", store |-> "trades", caught |-> TRUE],
     [path |-> "liquidationFeed", store |-> "liquidations", caught |-> FALSE],
     [path |-> "liquidationPoll", store |-> "liquidations", caught |-> TRUE],
     [path |-> "oiFundingFeed", store |-> "oi_funding", caught |-> FALSE],
     [path |-> "oiFundingPoll", store |-> "oi_funding", caught |-> TRUE]}

\* An exception no handler catches ends the process.
uncaught(p) == [p EXCEPT !.alive = FALSE]

\* One append on a path at time now; fails tells whether the insert throws.
writeOn(w, ts, fails, now) ==
    [stores |-> [now |-> now,
                 s |-> [stores.s EXCEPT ![w.store] =
                           IF fails THEN appendThrows(w.store, @, ts, now)
                           ELSE append(w.store, @, ts, now)]],
     proc |-> IF fails /\ ~w.caught THEN uncaught(proc) ELSE proc]

Write ==
    \E w \in WritePaths, ts \in {stores.now, stores.now + 1}, fails \in BOOLEAN :
        /\ proc.alive
        /\ steps < MaxWriteSteps
        /\ steps' = steps + 1
        /\ stores' = writeOn(w, ts, fails, ts).stores
        /\ proc' = writeOn(w, ts, fails, ts).proc
        /\ last' = [op |-> "write", path |-> w.path, store |-> w.store, ts |-> ts,
                    failed |-> fails]
        /\ UNCHANGED <<active, order, store, hist, seenTrades, storeHist, storeTrades, cands,
                       state, msg, perp>>

WriteNext == Write

WriteSpec == Init /\ [][WriteNext]_vars

\* C22: whenever a store's DB insert fails, on any appending path, the
\* failure is fatal: the process does not keep running after it.
C22_FailedInsertIsFatal == (last.op = "write" /\ last.failed) => ~proc.alive

(***************************************************************************)
(* FeedSpec: the websocket feeds.  Each feed has one current socket; its   *)
(* handlers run to completion.  The perp book feeds of the two venues      *)
(* deliver a book message; any open socket can deliver a message that is   *)
(* not JSON; the venue can reject the liquidation subscription.            *)
(***************************************************************************)
MaxPollTimers == 2

\* The "open" handler: send the subscription (and call onReady).
onOpen(p, f) == [p EXCEPT !.socket[f] = "open", !.subscribed[f] = TRUE]

\* The "close" handler: setTimeout(() => connect(), 2000).
onClose(p, f) == [p EXCEPT !.socket[f] = "closed", !.subscribed[f] = FALSE, !.timer[f] = TRUE]

\* The reconnect timer fires: connect() makes a new socket.
connect(p, f) == [p EXCEPT !.timer[f] = FALSE, !.socket[f] = "connecting"]

\* JSON.parse(data.toString()) throws in the "message" handler.
onUnparseable(p, f) == uncaught(p)

\* startLiquidationPolling: setInterval(fetchLiquidationSnapshot, 30000).
startLiquidationPolling(p) == [p EXCEPT !.pollTimers = @ + 1]

\* connectLiquidations, "message" handler, for a subscribe reply with
\* success false and "handler not found": ws.close(), then the fallback.
onLiquidationRejected(p) ==
    startLiquidationPolling([p EXCEPT !.socket["liquidations"] = "closing"])

SocketVars == <<active, order, store, hist, seenTrades, storeHist, storeTrades, cands, perp,
                stores, steps>>

FeedOpen ==
    \E f \in Feeds :
        /\ proc.alive /\ proc.socket[f] = "connecting"
        /\ proc' = onOpen(proc, f)
        /\ UNCHANGED <<SocketVars, state, msg, last>>

FeedClose ==
    \E f \in Feeds :
        /\ proc.alive /\ proc.socket[f] \in {"connecting", "open", "closing"}
        /\ proc' = onClose(proc, f)
        /\ UNCHANGED <<SocketVars, state, msg, last>>

FeedReconnect(f) ==
    /\ proc.alive /\ proc.timer[f]
    /\ proc' = connect(proc, f)
    /\ UNCHANGED <<SocketVars, state, msg, last>>

FeedReconnects == \E f \in Feeds : FeedReconnect(f)

FeedBook ==
    /\ proc.alive
    /\ \/ /\ proc.socket["perpBookA"] = "open"
          /\ BybitMessage(<<<<"100", "2.0">>>>, <<<<"102", "5.0">>>>)
       \/ /\ proc.socket["perpBookB"] = "open"
          /\ MexcMessage(<<<<"100", "2">>>>, <<<<"102", "5">>>>)
    /\ msg' = [kind |-> "book"]
    /\ UNCHANGED <<proc, stores, steps>>

FeedUnparseable ==
    \E f \in Feeds :
        /\ proc.alive /\ proc.socket[f] = "open"
        /\ proc' = onUnparseable(proc, f)
        /\ msg' = [kind |-> "unparseable", feed |-> f]
        /\ last' = [op |-> "message", feed |-> f]
        /\ UNCHANGED <<SocketVars, state>>

LiquidationRejected ==
    /\ proc.alive /\ proc.socket["liquidations"] = "open"
    /\ proc.pollTimers < MaxPollTimers
    /\ proc' = onLiquidationRejected(proc)
    /\ UNCHANGED <<SocketVars, state, msg, last>>

FeedNext ==
    FeedOpen \/ FeedClose \/ FeedReconnects \/ FeedBook \/ FeedUnparseable
    \/ LiquidationRejected

\* Timers are scheduled fairly: a pending reconnect timer fires.
FeedSpec == Init /\ [][FeedNext]_vars /\ \A f \in Feeds : WF_vars(FeedReconnect(f))

\* C23: a feed message that fails JSON parsing is dropped: BookState and
\* LevelTracker are unchanged, no onUpdate is delivered for it, and the
\* process keeps running, with the socket's handlers in place.
C23_UnparseableDropped ==
    [][msg'.kind = "unparseable" =>
          /\ state' = state
          /\ last'.op # "onUpdate"
          /\ proc'.alive
          /\ proc'.socket = proc.socket]_vars

\* C24: with timers scheduled fairly, for every websocket feed each socket
\* close is eventually followed by a new connection attempt, and the feed
\* subscribes again when the new socket opens.
C24_Reconnects ==
    /\ \A f \in Feeds : (proc.socket[f] = "closed") ~> (proc.socket[f] = "connecting")
    /\ [][\A f \in Feeds :
             (proc.socket[f] = "connecting" /\ proc'.socket[f] = "open") =>
                 proc'.subscribed[f]]_vars

\* C27: once the venue has rejected the liquidation subscription, the REST
\* polling fallback has been started exactly once and the feed is not
\* subscribed again: there is at most one liquidation polling timer, however
\* often the socket closes and reconnects.
C27_PollingStartedOnce ==
    proc.pollTimers >= 1 =>
        /\ proc.pollTimers = 1
        /\ proc.socket["liquidations"] # "open"

(***************************************************************************)
(* OrderSpec: the metrics tick taken statement by statement.  A tick runs  *)
(* to completion: between its start and its end only its own stages run.   *)
(* msg holds the position: the stages left to run, each for a symbol, the  *)
(* tick's outlier records per symbol and the perp messages to broadcast.   *)
(* Perp books are held for the first symbol only.                          *)
(***************************************************************************)
MaxOrderSteps == 3

\* OutlierStore.appendAll on records: nothing for an empty batch.
appendAllRows(st, records, now) ==
    IF Len(records) = 0 THEN st
    ELSE pruneRows([data |-> st.data \o records, db |-> st.db \o records], now)

spotStages_UpdateFirst == <<"updateSpans", "appendOutliers", "broadcastBook">>

\* The statements of the spot block, in the order of the code.
spotStages == <<"appendOutliers", "updateSpans", "broadcastBook">>

\* The statements of the perp path, in the order of the code.
perpStages == <<"perpCompute", "broadcastMetrics", "broadcastPerpBook">>

\* The stages a tick runs for symbol i: the spot block when a spot book is
\* held, then the perp path when a perp book is held.
symbolStages(i, inputs, p) ==
    LET spot == IF inputs[i].present THEN spotStages ELSE <<>>
        perpPath == IF i = 1 /\ (p.latest["bybit"] # <<>> \/ p.latest["mexc"] # <<>>)
                    THEN perpStages ELSE <<>>
        stages == spot \o perpPath
    IN [k \in 1..Len(stages) |-> [i |-> i, stage |-> stages[k]]]

RECURSIVE tickStages(_, _, _)
tickStages(i, inputs, p) ==
    IF i > Len(Symbols) THEN <<>>
    ELSE symbolStages(i, inputs, p) \o tickStages(i + 1, inputs, p)

\* The spot books a tick finds, per symbol.
OrderBooks ==
    {<<[bybit |-> a, mexc |-> NoBook], [bybit |-> c, mexc |-> NoBook]>> :
        a \in {NoBook, Book(Bids(27, 1), Asks(3, 0))},
        c \in {NoBook, Book(Bids(27, 1), Asks(3, 0))}}

Idle == msg.kind # "tick"

\* A perp adapter delivers a book between two ticks.
OrderUpdate == Idle /\ steps < MaxOrderSteps /\ PerpUpdate

\* The setInterval callback starts.
TickStart ==
    \E books \in OrderBooks :
        LET inputs == spotInputs(books, steps + 1)
            plan == tickStages(1, inputs, perp)
        IN /\ Idle
           /\ steps < MaxOrderSteps
           /\ steps' = steps + 1
           /\ msg' = IF plan = <<>> THEN [kind |-> "idle"]
                     ELSE [kind |-> "tick", plan |-> plan, inputs |-> inputs,
                           pending |-> <<>>, ts |-> steps + 1]
           /\ last' = [op |-> "tickStart"]
           /\ UNCHANGED <<active, order, store, hist, seenTrades, storeHist, storeTrades,
                          cands, state, perp, stores, proc>>

\* msg after the stage at the head of the plan, with the perp messages left
\* to broadcast.
Advance(pending) ==
    IF Len(msg.plan) = 1 THEN [kind |-> "idle"]
    ELSE [msg EXCEPT !.plan = Tail(@), !.pending = pending]

TrackerUnchanged ==
    UNCHANGED <<active, order, store, hist, seenTrades, storeHist, storeTrades>>

\* The next statement of the running tick.
TickStage ==
    /\ msg.kind = "tick"
    /\ LET i == msg.plan[1].i
           stage == msg.plan[1].stage
           records == msg.inputs[i].records
       IN /\ last' = [op |-> stage, symbol |-> Symbols[i]]
          /\ \/ /\ stage = "appendOutliers"
                /\ stores' = [stores EXCEPT !.s["outliers"] =
                                 appendAllRows(@, records, stores.now)]
                /\ msg' = Advance(msg.pending)
                /\ TrackerUnchanged
                /\ UNCHANGED <<perp, state, proc>>
             \/ /\ stage = "updateSpans"
                /\ SetTracker(update(Tracker, records), histUpdate(History, order, records))
                /\ msg' = Advance(msg.pending)
             \/ /\ stage = "broadcastBook"
                /\ perp' = [perp EXCEPT !.sent = Append(@, [type |-> "book",
                                                            symbol |-> Symbols[i]])]
                /\ msg' = Advance(msg.pending)
                /\ TrackerUnchanged
                /\ UNCHANGED <<stores, state, proc>>
             \/ /\ stage = "perpCompute"
                /\ \E after \in {perpTick(perp, Symbols[i], msg.ts)} :
                       /\ perp' = [after EXCEPT !.sent = perp.sent]
                       /\ msg' = Advance(SubSeq(after.sent, Len(perp.sent) + 1,
                                                Len(after.sent)))
                /\ TrackerUnchanged
                /\ UNCHANGED <<stores, state, proc>>
             \/ /\ stage \in {"broadcastMetrics", "broadcastPerpBook"}
                /\ perp' = [perp EXCEPT !.sent = IF msg.pending = <<>> THEN @
                                                 ELSE Append(@, Head(msg.pending))]
                /\ msg' = Advance(IF msg.pending = <<>> THEN <<>> ELSE Tail(msg.pending))
                /\ TrackerUnchanged
                /\ UNCHANGED <<stores, state, proc>>
    /\ UNCHANGED <<cands, steps>>

OrderNext == OrderUpdate \/ TickStart \/ TickStage

OrderSpec == Init /\ [][OrderNext]_vars

\* The outlier records appended to the outlier store, as a span counts them.
StoredOutliers ==
    {HistRec(stores.s["outliers"].db[i]) : i \in 1..Len(stores.s["outliers"].db)}

\* C25: the outlier records of a tick are appended to the outlier store
\* before OutlierSpanTracker.update gets them: at every point, every record
\* counted in an active or a closed span is already in the outlier store.
C25_StoredBeforeCounted ==
    /\ \A k \in DOMAIN hist : \A i \in 1..Len(hist[k]) : hist[k][i] \in StoredOutliers
    /\ \A r \in 1..Len(storeHist) : \A i \in 1..Len(storeHist[r]) :
          storeHist[r][i] \in StoredOutliers

\* A span was extended by a second tick and another was closed.
C25_Witness ==
    /\ \E k \in DOMAIN hist : Len(hist[k]) = 2
    /\ Len(storeHist) >= 1

BroadcastStages == {"broadcastBook", "broadcastMetrics", "broadcastPerpBook"}

\* C26: within a tick, a message for a symbol is broadcast only when all of
\* that symbol's computations for the tick (outlier append and span update,
\* perp metrics, large moves, store appends) have been done.
C26_ComputeBeforeBroadcast ==
    [][(msg.kind = "tick" /\ Len(perp'.sent) > Len(perp.sent)) =>
          \A j \in 2..Len(msg.plan) :
              msg.plan[j].i = msg.plan[1].i => msg.plan[j].stage \in BroadcastStages]_vars

(***************************************************************************)
(* BatchSpec: appendAll of the two stores that have it, on batches in      *)
(* which one insert may throw.  The outlier store keeps a cache and a      *)
(* table; the large-move store keeps a table only (perp.largeMoves).  A    *)
(* row is the time it is stamped with.  Both are called from the metrics   *)
(* tick, which catches nothing.                                            *)
(***************************************************************************)
MaxBatchSteps == 3

\* OutlierStore.appendAll when the insert of record number failAt throws
\* (0: none does): each record is pushed and then inserted, one by one,
\* outside any transaction; the exception leaves the loop at once.
outlierAppendAll(st, records, failAt, now) ==
    IF Len(records) = 0 THEN st
    ELSE IF failAt = 0 THEN prune(pushAll(st, records), now)
    ELSE push(pushAll(st, SubSeq(records, 1, failAt - 1)), records[failAt])

\* LargeMoveStore.appendAll: the inserts run in one db.transaction, which is
\* rolled back when an insert throws; then the old rows are deleted.
largeMoveAppendAll(table, events, failAt, now) ==
    IF Len(events) = 0 THEN table
    ELSE IF failAt = 0
         THEN SelectSeq(table \o events, LAMBDA ts : ts >= now - retentionMs)
         ELSE table

\* The batches of a tick at time now: rows stamped by the tick.
Batches(now) == {<<>>, <<now>>, <<now, now>>}

BatchStep == proc.alive /\ steps < MaxBatchSteps /\ steps' = steps + 1

BatchVars == <<active, order, store, hist, seenTrades, storeHist, storeTrades, cands, state>>

BatchOutliers ==
    \E dt \in 0..1 : \E records \in Batches(stores.now + dt) :
        \E failAt \in 0..Len(records) :
            /\ BatchStep
            /\ stores' = [now |-> stores.now + dt,
                          s |-> [stores.s EXCEPT !["outliers"] =
                                    outlierAppendAll(@, records, failAt, stores.now + dt)]]
            /\ proc' = IF failAt = 0 THEN proc ELSE uncaught(proc)
            /\ msg' = [kind |-> "batch", store |-> "outliers", records |-> records,
                       failed |-> failAt # 0]
            /\ last' = [op |-> "appendAll", store |-> "outliers"]
            /\ UNCHANGED perp
            /\ UNCHANGED BatchVars

BatchLargeMoves ==
    \E dt \in 0..1 : \E events \in Batches(stores.now + dt) :
        \E failAt \in 0..Len(events) :
            /\ BatchStep
            /\ stores' = [stores EXCEPT !.now = stores.now + dt]
            /\ perp' = [perp EXCEPT !.largeMoves =
                           largeMoveAppendAll(@, events, failAt, stores.now + dt)]
            /\ proc' = IF failAt = 0 THEN proc ELSE uncaught(proc)
            /\ msg' = [kind |-> "batch", store |-> "large_moves", records |-> events,
                       failed |-> failAt # 0]
            /\ last' = [op |-> "appendAll", store |-> "large_moves"]
            /\ UNCHANGED BatchVars

BatchNext == BatchOutliers \/ BatchLargeMoves

BatchSpec == Init /\ [][BatchNext]_vars

\* table ends with the records of the batch.
EndsWith(table, records) ==
    /\ Len(table) >= Len(records)
    /\ SubSeq(table, Len(table) - Len(records) + 1, Len(table)) = records

\* C28: appendAll is atomic per batch in both stores: when the insert of a
\* record of the batch fails, the table and the cache hold no record of the
\* batch (they are as they were before the call); otherwise every record of
\* the batch is in the table.
C28_AppendAllAtomic ==
    [][(msg'.kind = "batch") =>
          /\ (msg'.failed /\ msg'.store = "outliers") =>
                 /\ stores'.s["outliers"].db = stores.s["outliers"].db
                 /\ stores'.s["outliers"].data = stores.s["outliers"].data
          /\ (msg'.failed /\ msg'.store = "large_moves") => perp'.largeMoves = perp.largeMoves
          /\ (~msg'.failed /\ msg'.store = "outliers") =>
                 EndsWith(stores'.s["outliers"].db, msg'.records)
          /\ (~msg'.failed /\ msg'.store = "large_moves") =>
                 EndsWith(perp'.largeMoves, msg'.records)]_vars

\* The part of C28 that the large-move store and the batches without a
\* failure satisfy.
C28_LargeMovesAtomic ==
    [][(msg'.kind = "batch") =>
          /\ (msg'.failed /\ msg'.store = "large_moves") => perp'.largeMoves = perp.largeMoves
          /\ (~msg'.failed /\ msg'.store = "outliers") =>
                 EndsWith(stores'.s["outliers"].db, msg'.records)
          /\ (~msg'.failed /\ msg'.store = "large_moves") =>
                 EndsWith(perp'.largeMoves, msg'.records)]_vars

(***************************************************************************)
(* DepthSpec: the depth the venue B perp adapter (MexcOrderbook) asks for. *)
(* msg holds the adapter once constructed: the configured depth            *)
(* (options.depth), the depth it chose and every subscription it has sent  *)
(* on the perpBookB socket, over connects and reconnects.                  *)
(***************************************************************************)
MaxDepthSteps == 4
MaxConfiguredDepth == 25

SUPPORTED_DEPTHS == <<5, 10, 20>>

\* config.depth: Math.max(1, parseNumber(process.env.DEPTH, 50))
ConfiguredDepths == 1..MaxConfiguredDepth

\* The constructor's this.depth.
chosenDepth(depth) ==
    IF \E i \in 1..Len(SUPPORTED_DEPTHS) : SUPPORTED_DEPTHS[i] = depth
    THEN depth
    ELSE SUPPORTED_DEPTHS[Len(SUPPORTED_DEPTHS)]

\* The "open" handler's sends: one sub.depth.full per symbol.
subscriptions(depth) ==
    [i \in 1..Len(Symbols) |-> [method |-> "sub.depth.full", symbol |-> Symbols[i],
                                limit |-> depth]]

DepthVars == <<active, order, store, hist, seenTrades, storeHist, storeTrades, cands, perp,
               stores, state>>

DepthStep == steps < MaxDepthSteps /\ steps' = steps + 1

\* new MexcOrderbook({symbols, depth: config.depth, ...})
MexcConstruct ==
    \E depth \in ConfiguredDepths :
        /\ msg.kind # "adapter"
        /\ DepthStep
        /\ msg' = [kind |-> "adapter", options |-> [depth |-> depth],
                   depth |-> chosenDepth(depth), sent |-> <<>>]
        /\ last' = [op |-> "new MexcOrderbook"]
        /\ UNCHANGED <<DepthVars, proc>>

MexcOpen ==
    /\ msg.kind = "adapter"
    /\ proc.socket["perpBookB"] = "connecting"
    /\ DepthStep
    /\ proc' = onOpen(proc, "perpBookB")
    /\ msg' = [msg EXCEPT !.sent = @ \o subscriptions(msg.depth)]
    /\ last' = [op |-> "open"]
    /\ UNCHANGED DepthVars

MexcClose ==
    /\ msg.kind = "adapter"
    /\ proc.socket["perpBookB"] \in {"connecting", "open"}
    /\ DepthStep
    /\ proc' = onClose(proc, "perpBookB")
    /\ last' = [op |-> "close"]
    /\ UNCHANGED <<DepthVars, msg>>

MexcReconnect ==
    /\ msg.kind = "adapter"
    /\ proc.timer["perpBookB"]
    /\ DepthStep
    /\ proc' = connect(proc, "perpBookB")
    /\ last' = [op |-> "connect"]
    /\ UNCHANGED <<DepthVars, msg>>

DepthNext == MexcConstruct \/ MexcOpen \/ MexcClose \/ MexcReconnect

DepthSpec == Init /\ [][DepthNext]_vars

Supported == {SUPPORTED_DEPTHS[i] : i \in 1..Len(SUPPORTED_DEPTHS)}

\* The supported values at minimum absolute difference from depth.
Closest(depth) == {s \in Supported : \A t \in Supported : Abs(s - depth) <= Abs(t - depth)}

\* C30: every subscription of the venue B perp adapter asks for the
\* configured depth when it is one of 5, 10, 20, and otherwise for the one
\* of them closest to the configured depth.
C30_ClosestSupportedDepth ==
    msg.kind = "adapter" =>
        \A i \in 1..Len(msg.sent) :
            IF msg.options.depth \in Supported
            THEN msg.sent[i].limit = msg.options.depth
            ELSE msg.sent[i].limit \in Closest(msg.options.depth)

\* What the adapter does: the configured depth when supported, else the
\* largest supported value.
C30_LargestSupportedDepth ==
    msg.kind = "adapter" =>
        \A i \in 1..Len(msg.sent) :
            IF msg.options.depth \in Supported
            THEN msg.sent[i].limit = msg.options.depth
            ELSE msg.sent[i].limit = 20

\* Field-wise sum of two MoveStats, and the MoveStats of no transition.
SideSum(a, b) ==
    [adds |-> a.adds + b.adds, changes |-> a.changes + b.changes,
     removals |-> a.removals + b.removals, sizeDelta |-> a.sizeDelta + b.sizeDelta]
StatsSum(a, b) == [bids |-> SideSum(a.bids, b.bids), asks |-> SideSum(a.asks, b.asks)]
NoMoves == Moved(0, 0, 0, 0)

\* The transitions the two perp trackers hold, not yet in any MetricsPoint.
Uncounted(p) == StatsSum(p.tracker["bybit"].stats, p.tracker["mexc"].stats)

\* The moveStats of the MetricsPoint a step appended, if it appended one.
CountedBy(p, q) ==
    IF Len(q.store) = Len(p.store) + 1 THEN q.store[Len(q.store)].moveStats ELSE NoMoves

\* C31: every transition a perp LevelTracker recorded is in the moveStats of
\* exactly one MetricsPoint: over a tick, what the two trackers held before
\* is the field-wise sum of what the tick's MetricsPoint carries and what the
\* trackers still hold after (nothing dropped, nothing counted twice).
C31_MovesConserved ==
    [][msg'.kind = "perpTick" =>
          StatsSum(CountedBy(perp, perp'), Uncounted(perp')) = Uncounted(perp)]_vars

\* The part of C31 that holds: a tick that appends a MetricsPoint puts in it
\* all the two trackers held and leaves them zeroed.
C31_CountedWhenProduced ==
    [][(msg'.kind = "perpTick" /\ Len(perp'.store) = Len(perp.store) + 1) =>
          /\ CountedBy(perp, perp') = Uncounted(perp)
          /\ Uncounted(perp') = NoMoves]_vars

\* C32: a tick that runs large-move detection compares its merged book with
\* the merged book of the immediately preceding tick of the symbol: the
\* stored previous book (lastSnapshot) is that tick's merged book, or there
\* is none because no tick came before.
C32_ConsecutiveBooks ==
    [][(msg'.kind = "perpTick" /\ Len(perp'.store) = Len(perp.store) + 1) =>
          perp.lastSnapshot = TickBook]_vars

\* The part of C32 that holds: the stored previous book is the merged book
\* of the most recent tick that produced a MetricsPoint.
C32_LastProducedBook ==
    [][(msg'.kind = "perpTick" /\ Len(perp'.store) = Len(perp.store) + 1) =>
          perp'.lastSnapshot = <<MergedPerp(perp)>>]_vars

(***************************************************************************)
(* AbsentSpec: the two perp book feeds with their sockets.  A venue        *)
(* delivers a book only on an open socket; sockets open, close and         *)
(* reconnect; the metrics tick runs on whatever perpLatest holds.          *)
(***************************************************************************)
PerpFeeds == [bybit |-> "perpBookA", mexc |-> "perpBookB"]

AbsentVars == <<active, order, store, hist, seenTrades, storeHist, storeTrades, cands, state,
                stores, perp, msg>>

PerpFeedOpen ==
    \E v \in Venues :
        /\ proc.socket[PerpFeeds[v]] = "connecting"
        /\ PerpStep
        /\ proc' = onOpen(proc, PerpFeeds[v])
        /\ last' = [op |-> "open", venue |-> v]
        /\ UNCHANGED AbsentVars

\* The "close" handler touches neither perpLatest nor the adapter's state.
PerpFeedClose ==
    \E v \in Venues :
        /\ proc.socket[PerpFeeds[v]] \in {"connecting", "open"}
        /\ PerpStep
        /\ proc' = onClose(proc, PerpFeeds[v])
        /\ last' = [op |-> "close", venue |-> v]
        /\ UNCHANGED AbsentVars

PerpFeedReconnect ==
    \E v \in Venues :
        /\ proc.timer[PerpFeeds[v]]
        /\ PerpStep
        /\ proc' = connect(proc, PerpFeeds[v])
        /\ last' = [op |-> "connect", venue |-> v]
        /\ UNCHANGED AbsentVars

\* A book message arrives on an open socket.
PerpDeliver == PerpUpdate /\ proc.socket[PerpFeeds[msg'.update.venue]] = "open"

AbsentNext == PerpFeedOpen \/ PerpFeedClose \/ PerpFeedReconnect \/ PerpDeliver \/ PerpTick

AbsentSpec == Init /\ [][AbsentNext]_vars

\* The venue's feed is absent: its socket is not open (it never connected, or
\* it closed and no book has come since).
Absent(v) == proc.socket[PerpFeeds[v]] # "open"

\* The delivered levels of a side of the venues whose feed is not absent.
PresentSide(v, side) == IF Absent(v) THEN <<>> ELSE VenueSide(perp, v, side)

\* C33: a tick treats a venue whose feed is absent as missing: the
\* MetricsPoint it appends has no per-venue block for the venue and the
\* merged book it keeps is the merge of the other venue's levels alone.
C33_AbsentVenueMissing ==
    [][(msg'.kind = "perpTick" /\ Len(perp'.store) = Len(perp.store) + 1) =>
          /\ \A v \in Venues : Absent(v) => v \notin DOMAIN Produced.exchanges
          /\ \A side \in {"bids", "asks"} :
                MergeOf(perp'.lastSnapshot[1][side], PresentSide("bybit", side),
                        PresentSide("mexc", side), side, PerpDepth)]_vars

\* The part of C33 that holds: a venue that has delivered no book at all is
\* missing from the MetricsPoint.
C33_NeverDeliveredMissing ==
    [][(msg'.kind = "perpTick" /\ Len(perp'.store) = Len(perp.store) + 1) =>
          \A v \in Venues : perp.latest[v] = <<>> => v \notin DOMAIN Produced.exchanges]_vars

(***************************************************************************)
(* ConsistSpec: the two perp book adapters with their "message" handlers,  *)
(* the onUpdate callbacks that fill perpLatest and the metrics tick that   *)
(* reads it, interleaved in any order.  Every handler runs to completion   *)
(* (one JavaScript event loop).  The tracker handed to onUpdate is the     *)
(* adapter's own object: perp.tracker is state[adapter].tracker.           *)
(***************************************************************************)
MaxConsistSteps == 3

ConsistBids == {<<>>} \cup {<<u>> : u \in RawLevel({"100", "101"}, {"5", "0.00"})}

\* BybitOrderbook "message" handler with sortedAsks taken before the asks of
\* the message are applied.
bybitOnMessage_AsksBeforeApply(st, b, a) ==
    LET half == applyUpdates(st, "bids", b)
        next == applyUpdates(half, "asks", a)
    IN [state |-> next,
        bids |-> sortLevels(next.bids, "bids", Depth),
        asks |-> sortLevels(half.asks, "asks", Depth)]

\* BybitOrderbook "message" handler: both sides of the message are applied,
\* then both sides are sorted and handed to onUpdate in one call.
bybitOnMessage(st, b, a) ==
    LET half == applyUpdates(st, "bids", b)
        next == applyUpdates(half, "asks", a)
    IN [state |-> next,
        bids |-> sortLevels(next.bids, "bids", Depth),
        asks |-> sortLevels(next.asks, "asks", Depth)]

\* MexcOrderbook "message" handler, for a message with a level on some side.
mexcOnMessage(st, b, a) ==
    LET next == applySnapshot(applySnapshot(st, "bids", b), "asks", a)
    IN [state |-> next,
        bids |-> sortLevels(next.bids, "bids", Depth),
        asks |-> sortLevels(next.asks, "asks", Depth)]

\* perpLatest.<venue>.set(symbol, { bids, asks, tracker })
setLatest(p, v, bids, asks, tracker) ==
    [p EXCEPT !.latest[v] = <<[bids |-> bids, asks |-> asks]>>, !.tracker[v] = tracker]

ConsistStep == steps < MaxConsistSteps /\ steps' = steps + 1

ConsistVars == <<active, order, store, hist, seenTrades, storeHist, storeTrades, cands,
                 stores, proc>>

PerpAdapters == [bybit |-> "IncrementalWS", mexc |-> "SnapshotWS"]

ConsistBybit ==
    \E b \in ConsistBids, a \in AskLevels :
        LET r == bybitOnMessage(state["IncrementalWS"], b, a)
        IN /\ ConsistStep
           /\ state' = [state EXCEPT !["IncrementalWS"] = r.state]
           /\ perp' = setLatest(perp, "bybit", r.bids, r.asks, r.state.tracker)
           /\ last' = [op |-> "onUpdate", adapter |-> "IncrementalWS", bids |-> r.bids,
                       asks |-> r.asks]
           /\ msg' = [kind |-> "message", venue |-> "bybit", b |-> b, a |-> a]
           /\ UNCHANGED ConsistVars

ConsistMexc ==
    \E b \in ConsistBids, a \in AskLevels :
        LET r == mexcOnMessage(state["SnapshotWS"], b, a)
        IN /\ ~(Len(b) = 0 /\ Len(a) = 0)
           /\ ConsistStep
           /\ state' = [state EXCEPT !["SnapshotWS"] = r.state]
           /\ perp' = setLatest(perp, "mexc", r.bids, r.asks, r.state.tracker)
           /\ last' = [op |-> "onUpdate", adapter |-> "SnapshotWS", bids |-> r.bids,
                       asks |-> r.asks]
           /\ msg' = [kind |-> "message", venue |-> "mexc", b |-> b, a |-> a]
           /\ UNCHANGED ConsistVars

\* The metrics tick; snapshotAndReset acts on the adapters' own trackers.
ConsistTick ==
    /\ ConsistStep
    /\ \E after \in {perpTick(perp, Symbols[1], steps + 1)} :
          /\ perp' = after
          /\ state' = [state EXCEPT
                          !["IncrementalWS"].tracker = after.tracker["bybit"],
                          !["SnapshotWS"].tracker = after.tracker["mexc"]]
    /\ last' = [op |-> "metricsTick", ts |-> steps + 1,
                read |-> [v \in Venues |-> perp.latest[v]]]
    /\ msg' = [kind |-> "perpTick"]
    /\ UNCHANGED ConsistVars

ConsistNext == ConsistBybit \/ ConsistMexc \/ ConsistTick

ConsistSpec == Init /\ [][ConsistNext]_vars

\* What the venue's handler handed to onUpdate at its most recent message:
\* each side of its BookState as that message left it, sorted and cut.
Handed(v) ==
    [bids |-> sortLevels(state[PerpAdapters[v]].bids, "bids", Depth),
     asks |-> sortLevels(state[PerpAdapters[v]].asks, "asks", Depth)]

RECURSIVE CountSum(_)
CountSum(rows) == IF rows = <<>> THEN 0 ELSE Head(rows).count + CountSum(Tail(rows))

\* The records accounted for: the counts of the rows of the span store and
\* of the active spans.
CountedRecords == CountSum(store) + CountSum([i \in 1..Len(order) |-> active[order[i]]])

\* C35: count conservation.  The counts of all rows ever appended to the
\* span store plus the counts of the active spans equal the number of
\* records passed to update: update(records) raises the total by the number
\* of its records, and recordTrade and getActive leave it as it is.
C35_CountConservation ==
    [][IF last'.op = "update"
       THEN CountedRecords' = CountedRecords + Len(last'.records)
       ELSE CountedRecords' = CountedRecords]_vars

\* A span of two records was closed while another is active, and a trade was
\* recorded on the way.
C35_Witness ==
    /\ \E i \in 1..Len(store) : store[i].count = 2 /\ store[i].tradeCount >= 1
    /\ DOMAIN active # {}
    /\ CountedRecords = 3

\* The span with its three trade counters put aside.
WithoutTrades(span) ==
    [span EXCEPT !.tradeBuyQty = 0, !.tradeSellQty = 0, !.tradeCount = 0]

\* C36: recordTrade opens, closes and removes no span, changes no field of
\* an active span but tradeBuyQty, tradeSellQty and tradeCount, and appends
\* nothing to the span store.
C36_RecordTradeFrame ==
    [][last'.op = "recordTrade" =>
          /\ DOMAIN active' = DOMAIN active
          /\ order' = order
          /\ store' = store
          /\ \A k \in DOMAIN active : WithoutTrades(active'[k]) = WithoutTrades(active[k])]_vars

\* A recordTrade call has just credited an active span of two records.
C36_Witness ==
    /\ last.op = "recordTrade"
    /\ \E k \in DOMAIN active :
          /\ active[k].count = 2
          /\ active[k].tradeCount >= 1
          /\ CountsFor(k, last.trade)

(***************************************************************************)
(* FailSpec: OutlierSpanTracker.update on a span store whose INSERT may    *)
(* throw.  store is the table of the span store (the rows whose insert     *)
(* completed); stores.s["outlier_spans"].data is its in-memory cache.      *)
(* update is called from the metrics tick, which catches nothing.          *)
(***************************************************************************)
MaxFailSteps == 3

\* The close loop when the insert of the failAt-th closed span throws (0:
\* none does): each unseen key is deleted from the map, then its row is
\* pushed to the cache and inserted; the exception leaves the loop, and the
\* unseen keys behind it are not visited.  trk is [active, order, store,
\* cache].
updateCloseThrows(trk, seen, failAt) ==
    LET gone == closing(trk.order, seen)
        visited == IF failAt = 0 THEN Len(gone) ELSE failAt
        inserted == IF failAt = 0 THEN Len(gone) ELSE failAt - 1
        deleted == {gone[i] : i \in 1..visited}
        kept == SelectSeq(trk.order, LAMBDA k : k \notin deleted)
    IN [active |-> [k \in Range(kept) |-> trk.active[k]],
        order |-> kept,
        store |-> trk.store \o [i \in 1..inserted |-> closeRow(trk.active[gone[i]])],
        cache |-> trk.cache \o [i \in 1..visited |-> closeRow(trk.active[gone[i]])]]

\* update(records) with a failing insert.
updateThrows(trk, records, failAt) ==
    LET seen == {key(records[i]) : i \in 1..Len(records)}
        mid == updateRecords([active |-> trk.active, order |-> trk.order], records)
    IN updateCloseThrows([active |-> mid.active, order |-> mid.order, store |-> trk.store,
                          cache |-> trk.cache], seen, failAt)

FailVars == <<hist, seenTrades, storeHist, storeTrades, cands, state, perp>>

FailUpdate ==
    \E records \in RecordLists({K1, K2}) :
        \E failAt \in 0..Len(closing(order, KeysOf(records))) :
            LET after == updateThrows([active |-> active, order |-> order, store |-> store,
                                       cache |-> stores.s["outlier_spans"].data],
                                      records, failAt)
            IN /\ proc.alive
               /\ steps < MaxFailSteps
               /\ steps' = steps + 1
               /\ active' = after.active
               /\ order' = after.order
               /\ store' = after.store
               /\ stores' = [stores EXCEPT !.s["outlier_spans"] =
                                [data |-> after.cache, db |-> after.store]]
               /\ proc' = IF failAt = 0 THEN proc ELSE uncaught(proc)
               /\ last' = Call("update", records, NoTrade, 0, <<>>)
               /\ msg' = [kind |-> "update", failed |-> failAt # 0]
               /\ UNCHANGED FailVars

FailNext == FailUpdate

FailSpec == Init /\ [][FailNext]_vars

C37_StoredWhenNoFailure ==
    [][(msg'.kind = "update" /\ ~msg'.failed) =>
          \A k \in DOMAIN active \ DOMAIN active' :
              \E i \in (Len(store) + 1)..Len(store') : RowKey(store'[i]) = k]_vars

(***************************************************************************)
(* ReconnectSpec: the IncrementalWS adapter (BybitOrderbook) over closes   *)
(* and reconnects of its socket.  The BookState is made in the             *)
(* constructor; connect() makes a new socket and installs the handlers.    *)
(* msg keeps the number of sockets opened so far and whether the message   *)
(* handled last was the first one on its socket.                           *)
(***************************************************************************)
MaxReconnectSteps == 6

ReconnectMsgs ==
    {[b |-> <<<<"100.0", "2.0">>>>, a |-> <<>>],
     [b |-> <<<<"101.0", "1.0">>>>, a |-> <<<<"102", "2.0">>>>],
     [b |-> <<<<"100.0", "0">>>>, a |-> <<>>]}

Connects == IF "connects" \in DOMAIN msg THEN msg.connects ELSE 0

ReconnectStep == steps < MaxReconnectSteps /\ steps' = steps + 1

ReconnectVars == <<active, order, store, hist, seenTrades, storeHist, storeTrades, cands,
                   perp, stores>>

\* "open": subscribe and onReady.
BybitOpen ==
    /\ proc.socket["perpBookA"] = "connecting"
    /\ ReconnectStep
    /\ proc' = onOpen(proc, "perpBookA")
    /\ msg' = [kind |-> "open", connects |-> Connects + 1]
    /\ last' = [op |-> "open"]
    /\ UNCHANGED <<ReconnectVars, state>>

\* "close": setTimeout(() => this.connect(), 2000).
BybitClose ==
    /\ proc.socket["perpBookA"] \in {"connecting", "open"}
    /\ ReconnectStep
    /\ proc' = onClose(proc, "perpBookA")
    /\ last' = [op |-> "close"]
    /\ UNCHANGED <<ReconnectVars, state, msg>>

\* The timer fires: connect().
BybitReconnect ==
    /\ proc.timer["perpBookA"]
    /\ ReconnectStep
    /\ proc' = connect(proc, "perpBookA")
    /\ last' = [op |-> "connect"]
    /\ UNCHANGED <<ReconnectVars, state, msg>>

\* "message" on the open socket.
BybitDelta ==
    \E m \in ReconnectMsgs :
        /\ proc.socket["perpBookA"] = "open"
        /\ ReconnectStep
        /\ BybitMessage(m.b, m.a)
        /\ msg' = [kind |-> "delta", b |-> m.b, a |-> m.a, connects |-> Connects,
                   first |-> msg.kind = "open"]

ReconnectNext == BybitOpen \/ BybitClose \/ BybitReconnect \/ BybitDelta

ReconnectSpec == Init /\ [][ReconnectNext]_vars

\* The prices a message names on a side.
Named(updates) == {toNumber(updates[i][1]) : i \in 1..Len(updates)}

\* Every level of the side whose price the updates do not name is kept.
KeepsUnnamed(side, updates) ==
    \A price \in DOMAIN Bybit[side] \ Named(updates) :
        /\ price \in DOMAIN Bybit[side]'
        /\ Bybit[side]'[price] = Bybit[side][price]

\* C38: a close and reconnect of the IncrementalWS socket leaves BookState
\* and LevelTracker as they were, and every message, the first one after a
\* reconnect included, is applied as a diff: a level held before stays in
\* the book unless the message names its price.
C38_ReconnectKeepsBook ==
    [][/\ last'.op \in {"open", "close", "connect"} => Bybit' = Bybit
       /\ msg'.kind = "delta" => /\ KeepsUnnamed("bids", msg'.b)
                                 /\ KeepsUnnamed("asks", msg'.a)]_vars

\* The first message on the second socket named bid 101 and ask 102, and the
\* bid at 100 held before the close is still in the book.
C38_Witness ==
    /\ msg.kind = "delta"
    /\ msg.first
    /\ msg.connects = 2
    /\ 100 \notin Named(msg.b)
    /\ 100 \in DOMAIN Bybit["bids"]
    /\ 101 \in DOMAIN Bybit["bids"]

(***************************************************************************)
(* PollSpec: the SnapshotPoll adapter (MexcSpotOrderbook) for one symbol.  *)
(* connect() polls once and starts the interval timer; every poll issues   *)
(* a fetch whose response is handled when it arrives, whatever other       *)
(* fetches are outstanding.  msg holds the adapter's timer and the         *)
(* requests: how many were issued, the outstanding ones with the snapshot  *)
(* the venue answers each with, and the newest request answered so far.    *)
(***************************************************************************)
MaxPollSteps == 4

\* The book of the venue at the time a request reaches it.
PollBooks ==
    {[b |-> <<<<"100", "5">>>>, a |-> <<<<"102", "5.0">>>>],
     [b |-> <<<<"101", "5">>>>, a |-> <<<<"102", "5.0">>>>],
     [b |-> <<<<"100", "5">>, <<"101", "5">>>>, a |-> <<>>]}

Poller ==
    IF msg.kind = "poll" THEN msg
    ELSE [kind |-> "poll", timers |-> 0, issued |-> 0, outstanding |-> {}, newest |-> <<>>]

\* poll() up to its first await: the fetch is issued.
poll(p, book) ==
    [p EXCEPT !.issued = @ + 1,
              !.outstanding = @ \cup {[id |-> p.issued + 1, b |-> book.b, a |-> book.a]}]

\* connect(): if (this.timer) return; this.poll(); this.timer = setInterval(...)
pollConnect(p, book) ==
    IF p.timers > 0 THEN p ELSE [poll(p, book) EXCEPT !.timers = @ + 1]

\* A request is answered: it leaves the outstanding ones.
answered(p, r, ok) ==
    [p EXCEPT !.outstanding = @ \ {r},
              !.newest = IF ok /\ (@ = <<>> \/ @[1].id < r.id) THEN <<r>> ELSE @]

PollStep == steps < MaxPollSteps /\ steps' = steps + 1

PollConnect ==
    \E book \in PollBooks :
        /\ PollStep
        /\ msg' = pollConnect(Poller, book)
        /\ last' = [op |-> "connect"]
        /\ UNCHANGED <<TrackerVars, state>>

\* The interval timer fires.
PollTimer ==
    \E book \in PollBooks :
        /\ Poller.timers > 0
        /\ PollStep
        /\ msg' = poll(Poller, book)
        /\ last' = [op |-> "poll"]
        /\ UNCHANGED <<TrackerVars, state>>

\* A response with status ok arrives and is applied.
PollResponse ==
    \E r \in Poller.outstanding :
        /\ PollStep
        /\ MexcSpotPoll(r.b, r.a)
        /\ msg' = answered(Poller, r, TRUE)

\* fetch rejects or the response is not ok: nothing is applied.
PollFailed ==
    \E r \in Poller.outstanding :
        /\ PollStep
        /\ msg' = answered(Poller, r, FALSE)
        /\ last' = [op |-> "pollFailed"]
        /\ UNCHANGED <<TrackerVars, state>>

PollNext == PollConnect \/ PollTimer \/ PollResponse \/ PollFailed

PollSpec == Init /\ [][PollNext]_vars

\* The side a snapshot of distinct prices and positive sizes describes.
SnapshotSide(levels) ==
    [price \in Named(levels) |->
        toNumber(levels[CHOOSE i \in 1..Len(levels) : toNumber(levels[i][1]) = price][2])]

\* C39: poll responses take effect in the order their requests were issued:
\* once no request is outstanding, the BookState is the snapshot returned to
\* the most recently issued request that was answered; and connect() never
\* starts a second poll timer.
C39_PollsInIssueOrder ==
    msg.kind = "poll" =>
        /\ msg.timers <= 1
        /\ (msg.outstanding = {} /\ msg.newest # <<>>) =>
               /\ state["SnapshotPoll"].bids = SnapshotSide(msg.newest[1].b)
               /\ state["SnapshotPoll"].asks = SnapshotSide(msg.newest[1].a)

\* The part of C39 that holds: connect() starts at most one poll timer.
C39_OneTimer == msg.kind = "poll" => msg.timers <= 1


(***************************************************************************)
(* The three adapters fed levels of size >= 0, with the tick's              *)
(* snapshotAndReset on any of them in between (TallySpec).  msg keeps, for *)
(* every adapter and side, adds - removals summed over the snapshots the   *)
(* tracker has returned, and whether a snapshot listed a price twice.      *)
(***************************************************************************)
MaxTallySteps == 3

TallySizes == {"0", "1", "2"}
TallyBid == RawLevel({"100", "101"}, TallySizes)

\* A side of a message: empty, one level, or a level at 100 followed by any
\* level (the same price again included).
TallyBids ==
    {<<>>} \cup {<<u>> : u \in TallyBid}
           \cup {<<u, v>> : u \in RawLevel({"100"}, TallySizes), v \in TallyBid}

TallyAsks == {<<>>, <<<<"102", "2">>>>, <<<<"102", "0">>>>}

NetReturned ==
    IF "tally" \in DOMAIN msg THEN msg.tally
    ELSE [a \in Adapters |-> [bids |-> 0, asks |-> 0]]

Repeated == IF "repeated" \in DOMAIN msg THEN msg.repeated ELSE FALSE

\* A price listed twice with a size > 0 among the levels of one side.
RepeatsPrice(levels) ==
    \E i, j \in 1..Len(levels) :
        /\ i < j
        /\ toNumber(levels[i][1]) = toNumber(levels[j][1])
        /\ toNumber(levels[i][2]) > 0
        /\ toNumber(levels[j][2]) > 0

NetOf(sideStats) == sideStats.adds - sideStats.removals

TallyStep == steps < MaxTallySteps /\ steps' = steps + 1

TallyBybit ==
    \E b \in TallyBids, a \in TallyAsks :
        /\ TallyStep
        /\ BybitMessage(b, a)
        /\ msg' = [kind |-> "tally", tally |-> NetReturned, repeated |-> Repeated]

TallyMexc ==
    \E b \in TallyBids, a \in TallyAsks :
        /\ TallyStep
        /\ MexcMessage(b, a)
        /\ msg' = [kind |-> "tally", tally |-> NetReturned,
                   repeated |-> Repeated \/ RepeatsPrice(b) \/ RepeatsPrice(a)]

TallyPoll ==
    \E b \in TallyBids, a \in TallyAsks :
        /\ TallyStep
        /\ MexcSpotPoll(b, a)
        /\ msg' = [kind |-> "tally", tally |-> NetReturned,
                   repeated |-> Repeated \/ RepeatsPrice(b) \/ RepeatsPrice(a)]

\* The tick's tracker.snapshotAndReset() on one adapter's state.
TallyReset ==
    \E adapter \in Adapters :
        LET r == snapshotAndReset(state[adapter].tracker)
        IN /\ TallyStep
           /\ state' = [state EXCEPT ![adapter].tracker = r.tracker]
           /\ last' = [op |-> "snapshotAndReset", stats |-> r.snapshot]
           /\ msg' = [kind |-> "tally",
                      tally |-> [NetReturned EXCEPT ![adapter] =
                                    [side \in {"bids", "asks"} |->
                                        @[side] + NetOf(r.snapshot[side])]],
                      repeated |-> Repeated]
           /\ UNCHANGED TrackerVars

TallyNext == TallyBybit \/ TallyMexc \/ TallyPoll \/ TallyReset

TallySpec == Init /\ [][TallyNext]_vars

\* adds - removals of one adapter and side over every interval, the running
\* one included.
NetAdds(adapter, side) == NetReturned[adapter][side] + NetOf(state[adapter].tracker.stats[side])

LevelsOn(adapter, side) == Cardinality(DOMAIN state[adapter][side])

\* C40: for every adapter fed sizes >= 0 and each side, the adds minus the
\* removals the tracker recorded over all snapshot-and-reset intervals equal
\* the number of levels now on that side of the book.
C40_NetAddsEqualLevels ==
    \A adapter \in Adapters, side \in {"bids", "asks"} :
        NetAdds(adapter, side) = LevelsOn(adapter, side)

\* The same, as long as no snapshot has listed a price twice.
C40_NetAddsUnlessRepeated ==
    ~Repeated => \A adapter \in Adapters, side \in {"bids", "asks"} :
                     NetAdds(adapter, side) = LevelsOn(adapter, side)

\* Some adapter holds a level after a reset returned a non-zero net count.
C40_Reached ==
    \E adapter \in Adapters :
        /\ ~Repeated
        /\ NetReturned[adapter].bids > 0
        /\ LevelsOn(adapter, "bids") = 2

====
